---- MODULE Spec2Model ----
(***************************************************************************)
(* Orchestration core of research-pipeline-sdk: the retry executor         *)
(* (utils/retry.ts), the step factory and wrapper (utils/steps.ts) and the *)
(* sequential pipeline driver (core/pipeline.ts).                          *)
(*                                                                         *)
(* One run of the model is one top-level call, selected by `mode`:         *)
(*   "direct"     executeWithRetry(fn, options)                            *)
(*   "createStep" createStep(name, executor, _, creationOptions).execute   *)
(*   "wrapStep"   wrapStepWithErrorHandling(step, creationOptions), its    *)
(*                execute and its rollback                                 *)
(*   "pipeline"   executePipeline(initialState, steps, config)             *)
(* User code (fn, executor, step.execute, step.rollback) is an             *)
(* asynchronous call: one action invokes it, a later action settles it     *)
(* with a nondeterministic outcome.                                        *)
(*                                                                         *)
(* Further specifications model the composite steps and the merger:        *)
(*   SpecTrack    executeTrackStep(state, options)   (steps/track.ts)      *)
(*   SpecParallel executeParallelStep(state, options) (steps/parallel.ts)  *)
(*   SpecMerge    ResultMerger.mergeTrackData(tracks, options)             *)
(*                (utils/merge.ts), applied to inputs drawn by Init        *)
(*   SpecRepeat   repeatUntil(conditionStep, stepsToRepeat, options) and   *)
(*                one execute of the step it creates, run under            *)
(*                executeWithRetry (steps/flowControl.ts); SpecRepeatLive  *)
(*                is the same run under weak fairness                      *)
(* State data are objects on a heap (`objs`), so that writes in place and  *)
(* aliasing between a parent state and a track's state are visible.        *)
(***************************************************************************)
EXTENDS Integers, Sequences, FiniteSets, TLC

(* ------------------------------ bounds --------------------------------- *)
MaxRetriesBound == 2
NumSteps == 2
MaxRollbackCalls == 2
MaxTrackSteps == 2
NumTracks == 3
MaxMergeTracks == 3

\* repeatUntil: the largest maxIterations handed in, and the number of steps
\* to repeat
MaxIterationsBound == 3
NumRepeatedSteps == 2

(* ------------------------- optional values ----------------------------- *)
\* An optional option is the empty set (absent) or a singleton.
Nullish(opt, default) == IF opt = {} THEN default ELSE CHOOSE v \in opt : TRUE

DEFAULT_RETRY_OPTIONS == [maxRetries |-> 3, retryDelay |-> 1000, backoffFactor |-> 2]

DEFAULT_PIPELINE_CONFIG ==
  [errorHandling |-> "stop", maxRetries |-> 3, retryDelay |-> 1000,
   backoffFactor |-> 2, continueOnError |-> FALSE]

(* ------------------------------ errors --------------------------------- *)
\* A thrown value.  cls is the constructor ("NonError" for a thrown value
\* that is no Error), code the `code` property ("undefined" when absent),
\* stack the place that constructed the object.
NoCode == "undefined"
NoStep == "undefined"
NoDetails == [originalError |-> <<>>, stack |-> "undefined"]

BaseResearchErrorClasses ==
  {"BaseResearchError", "NetworkError", "PipelineError", "ProcessingError",
   "ValidationError", "ConfigurationError", "TimeoutError", "ParallelError",
   "MaxIterationsError"}

InstanceOfError(e) == e.cls # "NonError"
InstanceOfBaseResearchError(e) == e.cls \in BaseResearchErrorClasses

\* Only the BaseResearchError classes define getFormattedMessage.
HasGetFormattedMessage(e) == InstanceOfBaseResearchError(e)

isResearchError(e) == InstanceOfError(e) /\ e.code # NoCode

\* (mutant: a BaseResearchError built without `retry` counts as retryable)
NewBaseResearchError_RetryDefaultsTrue(message, code, step, details, site) ==
  [cls |-> "BaseResearchError", code |-> code, step |-> step, msg |-> message,
   retry |-> TRUE, details |-> details, stack |-> site]

\* new BaseResearchError({...}): retry = options.retry ?? false
NewBaseResearchError(message, code, step, details, site) ==
  [cls |-> "BaseResearchError", code |-> code, step |-> step, msg |-> message,
   retry |-> FALSE, details |-> details, stack |-> site]

NewPipelineError(message, step, site) ==
  [cls |-> "PipelineError", code |-> "pipeline_error", step |-> step, msg |-> message,
   retry |-> FALSE, details |-> NoDetails, stack |-> site]

\* `error instanceof Error ? error.message : String(error)` or 'Unknown error'
MessageOf(e) == e.msg

\* The TypeError of calling a method the object does not have.
NotAFunction(site) ==
  [cls |-> "TypeError", code |-> NoCode, step |-> NoStep,
   msg |-> <<"researchError.getFormattedMessage is not a function">>,
   retry |-> FALSE, details |-> NoDetails, stack |-> site]

\* The TypeError of reading a property of undefined.
ReadOfUndefined(site) ==
  [cls |-> "TypeError", code |-> NoCode, step |-> NoStep,
   msg |-> <<"Cannot read properties of undefined (reading 'success')">>,
   retry |-> FALSE, details |-> NoDetails, stack |-> site]

\* What user code can throw: a NetworkError (retry true or false), an Error
\* carrying a string code that is no BaseResearchError (a system or HTTP
\* client error), a plain Error, and a value that is no Error.
UserError(cls, code, retry, m) ==
  [cls |-> cls, code |-> code, step |-> NoStep, msg |-> <<m>>, retry |-> retry,
   details |-> NoDetails, stack |-> "user"]

NetRetry == UserError("NetworkError", "network_error", TRUE, "temporary error")
NetFatal == UserError("NetworkError", "network_error", FALSE, "network failure")
SysError == UserError("Error", "ECONNABORTED", TRUE, "socket hang up")
PlainError == UserError("Error", NoCode, FALSE, "plain error")
NonError == UserError("NonError", NoCode, FALSE, "a string")

RawErrors == {NetRetry, NetFatal, SysError, PlainError, NonError}

NoError == UserError("NonError", NoCode, FALSE, "undefined")

\* what initialState.errors holds when the pipeline is called
PriorError == UserError("NetworkError", "network_error", FALSE, "earlier failure")
InitialErrors == <<PriorError>>

(* ------------------------------ states --------------------------------- *)
\* A ResearchState.  `errors` is a reference into `heap` (the errors array is
\* the one object of a state that the engine mutates in place); data, results
\* and stepHistory are only ever replaced by fresh copies and are values.
MkState(data, results, errors, stepHistory, currentStep) ==
  [data |-> data, results |-> results, errors |-> errors,
   stepHistory |-> stepHistory, currentStep |-> currentStep]

InitialErrorsRef == 1
NoState == MkState(<<>>, <<>>, 0, <<>>, "undefined")
InputState == MkState(<<>>, <<>>, InitialErrorsRef, <<>>, "undefined")

\* { ...state, metadata: { ...state.metadata, currentStep: name } }
StampCurrentStep(state, name) == [state EXCEPT !.currentStep = name]

\* The state a well-behaved user function returns: a copy of its argument
\* with one more data entry and one more result fragment.
UserReturn(state, tag, n) ==
  [state EXCEPT !.data = Append(@, <<tag, n>>), !.results = Append(@, <<tag, n>>)]

StepNames == <<"s1", "s2", "s3", "s4">>
StepName(i) == StepNames[i]

Last(seq) == seq[Len(seq)]

(* ----------------------------- variables ------------------------------- *)
VARIABLES
  mode,         \* which top-level call this run makes
  options,      \* its options: RetryOptions, StepCreationOptions or PipelineConfig
  steps,        \* the steps handed in, each [retryable, hasRollback]
  rpc,          \* position inside executeWithRetry / executeFunc
  attempt,      \* executeWithRetry: attempt
  lastError,    \* executeWithRetry: lastError
  calls,        \* number of invocations of the user function so far
  callArg,      \* the state the user function is given
  callResult,   \* how the call of executeWithRetry / executeFunc ended
  rbpc,         \* "idle", or "await" while a rollback is in flight
  rbArg,        \* the state the rollback in flight was given
  rbResult,     \* how the last call of a rollback ended
  spc,          \* position inside executeSteps
  stepIndex,    \* executeSteps: index of the step of the for loop
  stepsState,   \* executeSteps: state
  ppc,          \* position inside executePipeline
  pipelineState, \* executePipeline: state
  timer,        \* the global timer: "none", "armed", "fired", "cleared"
  firings,      \* how many times the timer's callback has run
  clearCalls,   \* how many times clearTimeout(timeoutId) has been called
  raceWinner,   \* what decided Promise.race: "none", "steps", "rejected", "timeout"
  trace,        \* observable events, in order
  heap          \* errors arrays by reference

\* executeTrackStep (steps/track.ts)
VARIABLES
  trackOptions, \* TrackOptions: name, number of steps, isolate, includeInResults, ...
  tpc,          \* position inside executeTrackStep
  trackIndex,   \* index of the step of the for loop
  currentState, \* executeTrackStep: currentState
  trackResult,  \* how the call of executeTrackStep ended
  trackTrace,   \* the calls of the track's steps, each with the data it saw
  objs          \* data objects by reference

trackVars == <<trackOptions, tpc, trackIndex, currentState, trackResult, trackTrace, objs>>

\* executeParallelStep (steps/parallel.ts)
VARIABLES
  parOptions,   \* ParallelOptions, the tracks handed in and NODE_ENV
  parpc,        \* position inside executeParallelStep
  promises,     \* trackPromises: the mapped promise of every track
  parResult,    \* how the call of executeParallelStep ended
  parTimer,     \* the shared timer: "none", "armed", "fired", "cleared"
  parClearCalls, \* how many times clearTimeout(timeoutId) has been called
  mergeCalls,   \* how many times the merge function has been invoked
  parTrace      \* the calls of the tracks, each with the state and data it saw

parVars == <<parOptions, parpc, promises, parResult, parTimer, parClearCalls,
             mergeCalls, parTrace>>

\* ResultMerger.mergeTrackData (utils/merge.ts)
VARIABLES
  mergeTracks,  \* the tracks argument: TrackResults in the order of Object.entries
  mergeOptions, \* the options argument, absent or ConflictResolutionOptions
  mergepc,      \* "idle", "call" before and "done" after the call
  mergeResult   \* how the call of mergeTrackData ended

mergeVars == <<mergeTracks, mergeOptions, mergepc, mergeResult>>

\* repeatUntil (steps/flowControl.ts); the step it creates runs its executor
\* through executeWithRetry, whose attempt, lastError and result are the
\* variables of the retry executor above, calls counting the executor's runs
VARIABLES
  repOptions,   \* RepeatUntilOptions, and the evaluations the input state holds
  reppc,        \* position inside repeatUntil, the step's execute and the executor
  loop,         \* the executor's locals: iterations, conditionMet, currentState, ...
  repTrace      \* the calls of the condition step and the repeated steps, in order

repVars == <<repOptions, reppc, loop, repTrace>>

callVars == <<mode, options, steps, mergeVars, repVars>>
\* what the retry executor, the step factory and the pipeline never write
inputVars == <<callVars, trackVars, parVars>>
retryVars == <<rpc, attempt, lastError, calls, callArg, callResult>>
rollbackVars == <<rbpc, rbArg, rbResult>>
stepsVars == <<spc, stepIndex, stepsState>>
pipelineVars == <<ppc, pipelineState, timer, firings, clearCalls, raceWinner>>
vars == <<inputVars, retryVars, rollbackVars, stepsVars, pipelineVars, trace, heap>>

\* err is the error as the engine sees it, raw the value user code threw
\* arg is the state passed in, val the state user code returned
Event(ev, n, step, err, raw, delay, arg, val) ==
  [ev |-> ev, n |-> n, step |-> step, err |-> err, raw |-> raw, delay |-> delay,
   arg |-> arg, val |-> val]

Pending == [status |-> "pending", value |-> NoState, error |-> NoError]
Resolved(v) == [status |-> "resolved", value |-> v, error |-> NoError]
Rejected(e) == [status |-> "rejected", value |-> NoState, error |-> e]

(* ------------------------- options of the calls ------------------------ *)
\* The step a createStep / wrapStepWithErrorHandling call yields
\* retryable: creationOptions.retryable ?? false
CreatedStepRetryable == Nullish(options.retryable, FALSE)
\* retryable: creationOptions.retryable ?? step.retryable ?? false
WrappedStepRetryable == Nullish(options.retryable, Nullish(steps[1].retryable, FALSE))

\* if (creationOptions.retryable && step.retryable) / if (wrappedStep.retryable)
StepUsesRetry ==
  IF mode = "createStep"
  THEN Nullish(options.retryable, FALSE) /\ CreatedStepRetryable
  ELSE WrappedStepRetryable

\* { maxRetries: creationOptions.maxRetries ?? 3, retryDelay: ... ?? 1000,
\*   backoffFactor: ... ?? 2, onRetry }
StepRetryOptions ==
  [maxRetries |-> {Nullish(options.maxRetries, 3)},
   retryDelay |-> {Nullish(options.retryDelay, 1000)},
   backoffFactor |-> {Nullish(options.backoffFactor, 2)},
   retryableErrors |-> {}]

\* const fullConfig = { ...DEFAULT_PIPELINE_CONFIG, ...config, steps }
fullConfig ==
  [errorHandling |-> Nullish(options.errorHandling, DEFAULT_PIPELINE_CONFIG.errorHandling),
   continueOnError |-> Nullish(options.continueOnError,
                               DEFAULT_PIPELINE_CONFIG.continueOnError),
   maxRetries |-> Nullish(options.maxRetries, DEFAULT_PIPELINE_CONFIG.maxRetries),
   retryDelay |-> DEFAULT_PIPELINE_CONFIG.retryDelay,
   backoffFactor |-> DEFAULT_PIPELINE_CONFIG.backoffFactor]

\* if (step.retryable && config.maxRetries && config.maxRetries > 0)
PipelineStepUsesRetry(i) ==
  Nullish(steps[i].retryable, FALSE) /\ fullConfig.maxRetries # 0
    /\ fullConfig.maxRetries > 0

\* { maxRetries: config.maxRetries, retryDelay: config.retryDelay || 1000,
\*   backoffFactor: config.backoffFactor || 2, onRetry }
PipelineRetryOptions ==
  [maxRetries |-> {fullConfig.maxRetries},
   retryDelay |-> {IF fullConfig.retryDelay # 0 THEN fullConfig.retryDelay ELSE 1000},
   backoffFactor |-> {IF fullConfig.backoffFactor # 0 THEN fullConfig.backoffFactor
                      ELSE 2},
   retryableErrors |-> {}]

\* the destructured RepeatUntilOptions, with their defaults
maxIterations == Nullish(repOptions.maxIterations, 5)
throwOnMaxIterations == Nullish(repOptions.throwOnMaxIterations, FALSE)
repeatContinueOnError == Nullish(repOptions.continueOnError, FALSE)

\* creationOptions of the RepeatUntil step: { retryable: true, maxRetries:
\* retry.maxRetries || 1, retryDelay: retry.baseDelay || 1000, backoffFactor: 2 }
\* with retry = { maxRetries: 1, baseDelay: 1000 } when the option is absent
RepeatUntilRetryOptions ==
  [maxRetries |-> {IF repOptions.retryMaxRetries \in {{}, {0}} THEN 1
                   ELSE CHOOSE n \in repOptions.retryMaxRetries : TRUE},
   retryDelay |-> {1000},
   backoffFactor |-> {2},
   retryableErrors |-> {}]

\* the options executeWithRetry is called with
retryOptions ==
  CASE mode = "direct" -> options
    [] mode = "pipeline" -> PipelineRetryOptions
    [] mode = "repeat" -> RepeatUntilRetryOptions
    [] OTHER -> StepRetryOptions

(* -------------------------- retry executor ----------------------------- *)
RECURSIVE Pow(_, _)
Pow(b, e) == IF e <= 0 THEN 1 ELSE b * Pow(b, e - 1)

\* options.retryableErrors: custom predicates a caller may pass
CustomPredicates == {"always", "hasCode"}
ApplyCustomPredicate(p, e) ==
  IF p = "always" THEN TRUE ELSE e.code # NoCode

defaultIsRetryable(e) == InstanceOfBaseResearchError(e) /\ e.retry = TRUE

maxRetries == Nullish(retryOptions.maxRetries, DEFAULT_RETRY_OPTIONS.maxRetries)
initialDelay == Nullish(retryOptions.retryDelay, DEFAULT_RETRY_OPTIONS.retryDelay)
backoffFactor == Nullish(retryOptions.backoffFactor, DEFAULT_RETRY_OPTIONS.backoffFactor)
isRetryable(e) ==
  IF retryOptions.retryableErrors = {} THEN defaultIsRetryable(e)
  ELSE ApplyCustomPredicate(CHOOSE p \in retryOptions.retryableErrors : TRUE, e)

\* (mutant: the exponent is the attempt itself)
RetryDelay_ExponentOffByOne(a) == initialDelay * Pow(backoffFactor, a)
\* const delay = initialDelay * Math.pow(backoffFactor, attempt - 1)
RetryDelay(a) == initialDelay * Pow(backoffFactor, a - 1)

\* catch of the first call: rethrow at once, or enter the retry loop
FirstCatchRethrows(e) == maxRetries <= 0 \/ ~isRetryable(e)
\* (mutant: a retry's catch looks at the attempt count only)
RetryCatchRethrows_IgnoresPredicate(e, a) == a >= maxRetries
\* catch of a retry: stop, or go round the loop again
RetryCatchRethrows(e, a) == a >= maxRetries \/ ~isRetryable(e)
\* while (attempt < maxRetries)
RetryLoopContinues(a) == a < maxRetries

(* ------------------- step factory: error normalisation ----------------- *)
\* The catch block of executeFunc up to the logging call: the error to throw.
ToResearchError(e, name, site) ==
  IF isResearchError(e) THEN e
  ELSE IF InstanceOfError(e)
  THEN NewBaseResearchError(e.msg, "step_execution_error", name,
                            [originalError |-> <<e>>, stack |-> e.stack], site)
  ELSE NewBaseResearchError(<<"Unknown error in step", name>>, "unknown_error", name,
                            [originalError |-> <<e>>, stack |-> "undefined"], site)

\* The whole catch block: logging calls researchError.getFormattedMessage(),
\* then the error is thrown.
ExecuteFuncThrows(e, name, site) ==
  LET researchError == ToResearchError(e, name, site)
  IN IF HasGetFormattedMessage(researchError) THEN researchError
     ELSE NotAFunction(site)

\* (mutant: the rollback's catch normalises like the catch of executeFunc)
WrappedRollbackThrows_Normalized(e, name) == ToResearchError(e, name, "steps.ts:232")
\* rollback of the wrapped step: catch (error) { log; throw error }
WrappedRollbackThrows(e, name) == e

(* ----------------------- the user function's call ---------------------- *)
StepLabel ==
  CASE mode = "direct" -> "fn"
    [] mode = "pipeline" -> StepName(stepIndex)
    [] OTHER -> StepName(1)

\* The outcomes of one call of user code: NoError is success.
Outcomes == {NoError} \cup RawErrors
\* The outcomes of one call of step.execute in a pipeline.
StepOutcomes == {NoError, NetRetry, SysError, PlainError}
\* The outcomes of one call of a rollback.
RollbackOutcomes == {NoError, NetRetry, SysError, PlainError}

\* fn of executeWithRetry in mode "direct": the caller's function itself.
DirectFnResult(out, k) ==
  IF out = NoError
  THEN [ok |-> TRUE, val |-> UserReturn(callArg, "fn", k), err |-> NoError, heap |-> heap]
  ELSE [ok |-> FALSE, val |-> NoState, err |-> out, heap |-> heap]

\* executeFunc of createStep / wrapStepWithErrorHandling
ExecuteFuncResult(out, k) ==
  IF out = NoError
  THEN [ok |-> TRUE, val |-> UserReturn(callArg, "exec", k), err |-> NoError,
        heap |-> heap]
  ELSE [ok |-> FALSE, val |-> NoState, heap |-> heap,
        err |-> ExecuteFuncThrows(out, StepName(1),
                  IF mode = "createStep" THEN "steps.ts:80" ELSE "steps.ts:178")]

\* recordStepExecution(state, step, success, error): the new state, and the
\* heap with the new errors array when an error is recorded
StepExecutionRecord(name, success, error) ==
  [stepName |-> name, success |-> success, error |-> error]

recordStepExecution(state, name, success, error, h) ==
  LET record == StepExecutionRecord(name, success, error)
      history == Append(state.stepHistory, record)
  IN IF error # NoError
     THEN [state |-> [state EXCEPT !.stepHistory = history, !.errors = Len(h) + 1],
           heap |-> Append(h, Append(h[state.errors], error))]
     ELSE [state |-> [state EXCEPT !.stepHistory = history], heap |-> h]

\* executeStep of executeStepWithErrorHandling: fn of the retry executor, or
\* called once.  It returns the recorded state also when the step threw,
\* unless its own catch block throws.
ExecuteStepResult(out, k) ==
  IF out = NoError
  THEN LET updatedState == UserReturn(callArg, "step", stepIndex)
           rec == recordStepExecution(updatedState, StepLabel, TRUE, NoError, heap)
       IN [ok |-> TRUE, val |-> rec.state, err |-> NoError, heap |-> rec.heap]
  ELSE LET researchError == ToResearchError(out, StepLabel, "pipeline.ts:148")
           rec == recordStepExecution(callArg, StepLabel, FALSE, researchError, heap)
       IN IF HasGetFormattedMessage(researchError)
          THEN [ok |-> TRUE, val |-> rec.state, err |-> NoError, heap |-> rec.heap]
          ELSE [ok |-> FALSE, val |-> NoState, err |-> NotAFunction("pipeline.ts:164"),
                heap |-> heap]

FnResult(out, k) ==
  CASE mode = "direct" -> DirectFnResult(out, k)
    [] mode = "pipeline" -> ExecuteStepResult(out, k)
    [] OTHER -> ExecuteFuncResult(out, k)

\* step.execute(state) of a created or wrapped step is called
StepExecuteCall ==
  /\ mode \in {"createStep", "wrapStep"}
  /\ rpc = "start"
  /\ rpc' = IF StepUsesRetry THEN "first" ELSE "plain"
  /\ callArg' = StampCurrentStep(InputState, StepName(1))
  /\ UNCHANGED <<inputVars, attempt, lastError, calls, callResult, rollbackVars,
                 stepsVars, pipelineVars, trace, heap>>

FnInvoke ==
  /\ rpc \in {"first", "retry", "plain"}
  /\ calls' = calls + 1
  /\ trace' = Append(trace, Event("call", calls + 1, StepLabel, NoError, NoError, 0,
                                  callArg, NoState))
  /\ rpc' = CASE rpc = "first" -> "firstAwait"
              [] rpc = "retry" -> "retryAwait"
              [] OTHER -> "plainAwait"
  /\ UNCHANGED <<inputVars, attempt, lastError, callArg, callResult, rollbackVars,
                 stepsVars, pipelineVars, heap>>

\* The user function settles and the code after the await runs to its next
\* suspension point.
FnSettle ==
  /\ rpc \in {"firstAwait", "retryAwait", "plainAwait"}
  /\ \E out \in (IF mode = "pipeline" THEN StepOutcomes ELSE Outcomes) :
       LET r == FnResult(out, calls)
           rethrow == CASE rpc = "firstAwait" -> FirstCatchRethrows(r.err)
                        [] rpc = "retryAwait" -> RetryCatchRethrows(r.err, attempt)
                        [] OTHER -> TRUE
       IN /\ trace' = Append(trace, Event(IF out = NoError THEN "ok" ELSE "fail",
                                          calls, StepLabel, r.err, out, 0, callArg,
                                          r.val))
          /\ heap' = r.heap
          /\ IF r.ok
             THEN /\ rpc' = "done"
                  /\ callResult' = Resolved(r.val)
                  /\ UNCHANGED lastError
             ELSE /\ lastError' = IF rpc = "plainAwait" THEN lastError ELSE r.err
                  /\ IF rethrow
                     THEN rpc' = "done" /\ callResult' = Rejected(r.err)
                     ELSE rpc' = "loop" /\ UNCHANGED callResult
  /\ UNCHANGED <<inputVars, attempt, calls, callArg, rollbackVars, stepsVars,
                 pipelineVars>>

\* while (attempt < maxRetries) { attempt++; delay; onRetry(...); await delay
RetryLoop ==
  /\ rpc = "loop"
  /\ IF RetryLoopContinues(attempt)
     THEN /\ attempt' = attempt + 1
          /\ trace' = Append(trace, Event("onRetry", attempt + 1, StepLabel, lastError,
                                          NoError, RetryDelay(attempt + 1), callArg,
                                          NoState))
          /\ rpc' = "wait"
          /\ UNCHANGED callResult
     ELSE /\ rpc' = "done"
          /\ callResult' = Rejected(lastError)
          /\ UNCHANGED <<attempt, trace>>
  /\ UNCHANGED <<inputVars, lastError, calls, callArg, rollbackVars, stepsVars,
                 pipelineVars, heap>>

\* the delay elapses; fn is called again
RetryDelayElapsed ==
  /\ rpc = "wait"
  /\ rpc' = "retry"
  /\ UNCHANGED <<inputVars, attempt, lastError, calls, callArg, callResult,
                 rollbackVars, stepsVars, pipelineVars, trace, heap>>

(* ------------------- rollback of a wrapped step ------------------------ *)
WrapperRollbackCalls == Len(SelectSeq(trace, LAMBDA ev : ev.ev = "wrapperRollback"))

\* wrappedStep.rollback(state): logs, then awaits step.rollback(state)
WrappedRollbackCall ==
  /\ mode = "wrapStep"
  /\ steps[1].hasRollback
  /\ rbpc = "idle"
  /\ rpc = "done"
  /\ WrapperRollbackCalls < MaxRollbackCalls
  /\ \E st \in {InputState} \cup
               (IF callResult.status = "resolved" THEN {callResult.value} ELSE {}) :
       /\ rbArg' = st
       /\ trace' = trace \o
            << Event("wrapperRollback", WrapperRollbackCalls + 1, StepName(1), NoError,
                     NoError, 0, st, NoState),
               Event("rollback", WrapperRollbackCalls + 1, StepName(1), NoError,
                     NoError, 0, st, NoState) >>
  /\ rbpc' = "await"
  /\ rbResult' = Pending
  /\ UNCHANGED <<inputVars, retryVars, stepsVars, pipelineVars, heap>>

WrappedRollbackSettle ==
  /\ mode = "wrapStep"
  /\ rbpc = "await"
  /\ \E out \in RollbackOutcomes :
       LET returned == IF out = NoError
                       THEN UserReturn(rbArg, "rollback", WrapperRollbackCalls)
                       ELSE NoState
       IN /\ trace' = Append(trace, Event(IF out = NoError THEN "rollbackOk"
                                          ELSE "rollbackFail",
                                          WrapperRollbackCalls, StepName(1), out, out, 0,
                                          rbArg, returned))
          /\ rbResult' = IF out = NoError
                         THEN Resolved(returned)
                         ELSE Rejected(WrappedRollbackThrows(out, StepName(1)))
  /\ rbpc' = "idle"
  /\ UNCHANGED <<inputVars, retryVars, rbArg, stepsVars, pipelineVars, heap>>

(* ------------------------- pipeline executor --------------------------- *)
StepEvent(ev, arg, raw, val) ==
  Event(ev, stepIndex, StepName(stepIndex), NoError, raw, 0, arg, val)

CaughtPipelineError_AlwaysWraps(e) ==
  NewPipelineError(MessageOf(e), "pipeline", "pipeline.ts:253")

\* catch of executePipeline: isResearchError(error) ? error : new PipelineError(...)
CaughtPipelineError(e) ==
  IF isResearchError(e) THEN e
  ELSE NewPipelineError(MessageOf(e), "pipeline", "pipeline.ts:253")

\* catch of a rollback in executeSteps
CaughtRollbackError(e, name) ==
  IF isResearchError(e) THEN e
  ELSE NewPipelineError(<<"Rollback for step", name, "failed:">> \o MessageOf(e), name,
                        "pipeline.ts:317")

\* the timer's callback: new PipelineError({ message: 'timed out', step: 'pipeline' })
TimeoutError ==
  NewPipelineError(<<"Pipeline execution timed out">>, "pipeline", "pipeline.ts:231")

\* state.errors.push(error): the array is changed in place
PushError(h, state, e) == [h EXCEPT ![state.errors] = Append(@, e)]

ClearTimeout_Skipped(t) == t

\* clearTimeout(timeoutId): a timer that has not fired never will
ClearTimeout(t) == IF t = "armed" THEN "cleared" ELSE t

\* What follows `await Promise.race(...)` in executePipeline when executeSteps
\* settles (resolved with st, or rejected with e) on heap h: the assignment or
\* the catch, then the finally.  Nothing happens when the race was decided
\* before.
ExecuteStepsSettles(ok, st, e, h) ==
  IF ppc = "racing"
  THEN /\ ppc' = "returned"
       /\ timer' = ClearTimeout(timer)
       /\ clearCalls' = clearCalls + 1
       /\ firings' = firings
       /\ IF ok
          THEN /\ pipelineState' = st
               /\ heap' = h
               /\ raceWinner' = "steps"
          ELSE /\ pipelineState' = pipelineState
               /\ heap' = PushError(h, pipelineState, CaughtPipelineError(e))
               /\ raceWinner' = "rejected"
  ELSE /\ heap' = h
       /\ UNCHANGED pipelineVars

\* for (const step of steps) { ... executeStepWithErrorHandling(step, state, config)
StepStart ==
  /\ mode = "pipeline"
  /\ spc = "next"
  /\ stepIndex <= Len(steps)
  /\ spc' = "step"
  /\ callArg' = stepsState
  /\ rpc' = IF PipelineStepUsesRetry(stepIndex) THEN "first" ELSE "plain"
  /\ attempt' = 0
  /\ lastError' = NoError
  /\ callResult' = Pending
  /\ UNCHANGED <<inputVars, calls, rollbackVars, stepIndex, stepsState, pipelineVars,
                 trace, heap>>

\* `if (errorHandling === 'stop' && !continueOnError)`
StopsOnFailure == fullConfig.errorHandling = "stop" /\ ~fullConfig.continueOnError
\* `else if (errorHandling === 'rollback' && step.rollback)`
RollsBack(i) == fullConfig.errorHandling = "rollback" /\ steps[i].hasRollback
\* `if (!continueOnError) break` after the rollback
StopsAfterRollback == ~fullConfig.continueOnError

\* executeStepWithErrorHandling has settled; the rest of the loop body runs.
AfterStep ==
  /\ mode = "pipeline"
  /\ spc = "step"
  /\ rpc = "done"
  /\ rpc' = "idle"
  /\ LET threw == callResult.status = "rejected"
         \* catch { return state } of the retry branch
         updatedState == IF threw THEN callArg ELSE callResult.value
         history == updatedState.stepHistory
     IN IF threw /\ ~PipelineStepUsesRetry(stepIndex)
        THEN /\ spc' = "rejected"
             /\ ExecuteStepsSettles(FALSE, NoState, callResult.error, heap)
             /\ UNCHANGED <<stepIndex, stepsState, rollbackVars, trace>>
        ELSE IF history = <<>>
        THEN /\ spc' = "rejected"
             /\ stepsState' = updatedState
             /\ ExecuteStepsSettles(FALSE, NoState, ReadOfUndefined("pipeline.ts:294"),
                                    heap)
             /\ UNCHANGED <<stepIndex, rollbackVars, trace>>
        ELSE /\ stepsState' = updatedState
             /\ UNCHANGED <<pipelineVars, heap>>
             /\ IF Last(history).success
                THEN /\ spc' = "next"
                     /\ stepIndex' = stepIndex + 1
                     /\ UNCHANGED <<rollbackVars, trace>>
                ELSE IF StopsOnFailure
                THEN /\ spc' = "finish"
                     /\ UNCHANGED <<stepIndex, rollbackVars, trace>>
                ELSE IF RollsBack(stepIndex)
                THEN /\ spc' = "rollback"
                     /\ rbpc' = "await"
                     /\ rbArg' = updatedState
                     /\ trace' = Append(trace, StepEvent("rollback", updatedState,
                                                         NoError, NoState))
                     /\ UNCHANGED <<stepIndex, rbResult>>
                ELSE /\ spc' = "next"
                     /\ stepIndex' = stepIndex + 1
                     /\ UNCHANGED <<rollbackVars, trace>>
  /\ UNCHANGED <<inputVars, attempt, lastError, calls, callArg, callResult>>

\* step.rollback(state) settles: state = its result, or the catch pushes the
\* rollback error; then break or go on.
RollbackSettle ==
  /\ mode = "pipeline"
  /\ spc = "rollback"
  /\ rbpc = "await"
  /\ rbpc' = "idle"
  /\ \E out \in RollbackOutcomes :
       LET returned == IF out = NoError THEN UserReturn(rbArg, "rollback", stepIndex)
                       ELSE NoState
       IN /\ trace' = Append(trace, StepEvent(IF out = NoError THEN "rollbackOk"
                                              ELSE "rollbackFail", rbArg, out, returned))
          /\ IF out = NoError
             THEN /\ stepsState' = returned
                  /\ rbResult' = Resolved(returned)
                  /\ heap' = heap
             ELSE /\ stepsState' = stepsState
                  /\ rbResult' = Rejected(out)
                  /\ heap' = PushError(heap, stepsState,
                                       CaughtRollbackError(out, StepName(stepIndex)))
  /\ IF StopsAfterRollback
     THEN spc' = "finish" /\ stepIndex' = stepIndex
     ELSE spc' = "next" /\ stepIndex' = stepIndex + 1
  /\ UNCHANGED <<inputVars, retryVars, rbArg, pipelineVars>>

\* the loop has ended (break, or no step left): return state
ExecuteStepsReturn ==
  /\ mode = "pipeline"
  /\ spc = "finish" \/ (spc = "next" /\ stepIndex > Len(steps))
  /\ spc' = "returned"
  /\ ExecuteStepsSettles(TRUE, stepsState, NoError, heap)
  /\ UNCHANGED <<inputVars, retryVars, rollbackVars, stepIndex, stepsState, trace>>

\* The global timer fires.  While executePipeline awaits the race this can
\* only happen when executeSteps awaits user code: the race rejects, the catch
\* pushes the timeout error, the finally runs.  A timer left armed after the
\* return fires into a race that is already decided.
TimeoutFires ==
  /\ mode = "pipeline"
  /\ timer = "armed"
  /\ ppc = "racing" =>
       (rpc \in {"firstAwait", "retryAwait", "plainAwait", "wait"} \/ rbpc = "await")
  /\ firings' = firings + 1
  /\ pipelineState' = pipelineState
  /\ IF ppc = "racing"
     THEN /\ ppc' = "returned"
          /\ raceWinner' = "timeout"
          /\ heap' = PushError(heap, pipelineState, CaughtPipelineError(TimeoutError))
          /\ timer' = ClearTimeout("fired")
          /\ clearCalls' = clearCalls + 1
     ELSE /\ timer' = "fired"
          /\ UNCHANGED <<ppc, raceWinner, heap, clearCalls>>
  /\ UNCHANGED <<inputVars, retryVars, rollbackVars, stepsVars, trace>>

(* ------------------------------- tracks -------------------------------- *)
\* A data object is a map of plain entries (kv) and the `tracks` entry, a map
\* from track names to TrackResults that is empty when data.tracks is
\* undefined.  A state of this part holds its data object by reference into
\* objs: data objects are what a step can write in place.
EmptyMap == [k \in {} |-> 0]
\* { ...a, ...b }
Spread(a, b) ==
  [k \in DOMAIN a \cup DOMAIN b |-> IF k \in DOMAIN b THEN b[k] ELSE a[k]]
\* { ...a, [k]: v }
Put(a, k, v) == Spread(a, [x \in {k} |-> v])

Data(kv, tracks) == [kv |-> kv, tracks |-> tracks]
EmptyData == Data(EmptyMap, EmptyMap)

TrackState(data, results, errors, currentStep, currentTrack) ==
  [data |-> data, results |-> results, errors |-> errors,
   currentStep |-> currentStep, currentTrack |-> currentTrack]

\* an entry of results: a fragment a step produced, or { track: trackResult }
Fragment(kind, name, val) == [kind |-> kind, name |-> name, val |-> val]

\* TrackResult (metadata left out)
TrackResult(name, results, data, errors, completed) ==
  [name |-> name, results |-> results, data |-> data, errors |-> errors,
   completed |-> completed]

\* the state a track step is called with by its parent, and the parent's data
\* object, which may hold the result of an earlier track
ParentDataRef == 1
EarlierTrack == TrackResult("t0", <<>>, EmptyData, <<>>, TRUE)
ParentData(hasTracks) ==
  Data([k \in {"p"} |-> 0],
       IF hasTracks THEN [k \in {"t0"} |-> EarlierTrack] ELSE EmptyMap)
ParentState ==
  TrackState(ParentDataRef, <<Fragment("step", "parent", <<>>)>>, <<PriorError>>,
             "Track", "undefined")

NewValidationError(message, step, site) ==
  [cls |-> "ValidationError", code |-> "validation_error", step |-> step,
   msg |-> message, retry |-> FALSE, details |-> NoDetails, stack |-> site]

NewProcessingError(message, step, original, site) ==
  [cls |-> "ProcessingError", code |-> "processing_error", step |-> step,
   msg |-> message, retry |-> FALSE,
   details |-> [originalError |-> <<original>>, stack |-> "undefined"], stack |-> site]

\* the names of a track's steps, and the plain key each of them writes: the
\* first one overwrites the parent's key
TrackStepName(j) == <<"ts1", "ts2", "ts3">>[j]
TrackStepKey(j) == <<"p", "q", "r">>[j]

\* the destructured TrackOptions, with their defaults
isolate == Nullish(trackOptions.isolate, FALSE)
includeInResults == Nullish(trackOptions.includeInResults, TRUE)
trackContinueOnError == Nullish(trackOptions.continueOnError, FALSE)
trackRetry == Nullish(trackOptions.maxRetries, 0)

\* trackState: `data: isolate ? {} : { ...state.data }`, results and errors empty
TrackData_SharesParentData(state, h) == [ref |-> state.data, objs |-> h]

NewTrackData(state, h) ==
  [ref |-> Len(h) + 1,
   objs |-> Append(h, IF isolate THEN EmptyData ELSE h[state.data])]

InitialTrackState(name, state, h) ==
  LET d == NewTrackData(state, h)
  IN [state |-> TrackState(d.ref, <<>>, <<>>, state.currentStep, name),
      objs |-> d.objs]

\* What a step of a track does: it returns a new state with one more entry
\* and one more fragment ("ok"), it writes the entry into the data object it
\* was given and returns a state that still holds that object ("mutate"), or
\* it throws.
TrackStepErrors == {PlainError, NetFatal, NonError}
TrackStepOutcomes ==
  {[kind |-> k, err |-> NoError] : k \in {"ok", "mutate"}}
    \cup {[kind |-> "throw", err |-> e] : e \in TrackStepErrors}

TrackStepReturn(out, arg, j, v, h) ==
  LET results == Append(arg.results, Fragment("step", TrackStepName(j), <<v>>))
      written == [h[arg.data] EXCEPT !.kv = Put(@, TrackStepKey(j), v)]
  IN IF out.kind = "ok"
     THEN [state |-> [arg EXCEPT !.data = Len(h) + 1, !.results = results],
           objs |-> Append(h, written)]
     ELSE [state |-> [arg EXCEPT !.results = results],
           objs |-> [h EXCEPT ![arg.data] = written]]

\* `stepError instanceof Error ? stepError : new Error(errorMessage)`
AsError(e) ==
  IF InstanceOfError(e) THEN e
  ELSE [cls |-> "Error", code |-> NoCode, step |-> NoStep, msg |-> MessageOf(e),
        retry |-> FALSE, details |-> NoDetails, stack |-> "track.ts:171"]

\* the ProcessingError that leaves the loop of a track
TrackStepFailure(name, errorStep, stepError) ==
  NewProcessingError(<<"Track", name, "failed at step", errorStep>> \o MessageOf(stepError),
                     "Track", stepError, "track.ts:177")

\* an entry of trackResult.errors on the success path
ErrorSummary(err, cur) ==
  [message |-> MessageOf(err),
   step |-> IF InstanceOfBaseResearchError(err) THEN err.step ELSE cur.currentStep,
   code |-> IF err.code # NoCode THEN err.code ELSE "TRACK_STEP_ERROR"]

\* the TrackResult of a track whose loop ran to its end
CompletedTrackResult(name, cur, h) ==
  TrackResult(name, cur.results, h[cur.data],
              [i \in 1..Len(cur.errors) |-> ErrorSummary(cur.errors[i], cur)],
              Len(cur.errors) = 0)

\* the TrackResult built by the catch of executeTrackStep
FailedTrackResult(name, cur, error, h) ==
  TrackResult(name, cur.results, h[cur.data],
              Append(cur.errors,
                     [message |-> MessageOf(error), step |-> cur.currentStep,
                      code |-> IF InstanceOfError(error) /\ error.code # NoCode
                               THEN error.code ELSE "TRACK_EXECUTION_ERROR"]),
              FALSE)

\* errorToThrow
TrackErrorToThrow(name, cur, error) ==
  IF error.cls \in {"ValidationError", "ConfigurationError", "ProcessingError"}
  THEN error
  ELSE NewProcessingError(<<"Track", name, "execution failed:">> \o MessageOf(error),
                          "Track", error, "track.ts:320")

\* { ...(state.data.tracks || {}), [name]: trackResult }
WithTrack(tracks, name, result) == Put(tracks, name, result)

\* The state a finished track returns: the parent's state with a new data
\* object (the track's entries unless isolated, and the track's result under
\* tracks) and, if asked for, one more fragment.
TrackReturn(state, cur, result, h) ==
  LET base == IF isolate THEN h[state.data] ELSE h[cur.data]
      data == Data(base.kv, WithTrack(h[state.data].tracks, result.name, result))
      results == IF includeInResults
                 THEN Append(state.results, Fragment("track", result.name, <<result>>))
                 ELSE state.results
  IN [state |-> [state EXCEPT !.data = Len(h) + 1, !.results = results],
      objs |-> Append(h, data)]

\* updatedState of the catch: the parent's state with the failed track added
TrackFailureState(state, result, h) ==
  LET data == Data(h[state.data].kv,
                   WithTrack(h[state.data].tracks, result.name, result))
      results == IF includeInResults
                 THEN Append(state.results, Fragment("track", result.name, <<result>>))
                 ELSE state.results
  IN [state |-> [state EXCEPT !.data = Len(h) + 1, !.results = results],
      objs |-> Append(h, data)]

TrackEvent(ev, j, arg, h) ==
  [ev |-> ev, step |-> j, arg |-> arg, data |-> h[arg.data], parent |-> h[ParentDataRef]]

\* executeTrackStep(state, options) up to the for loop: the validation of the
\* options and trackState
TrackStart ==
  /\ mode = "track"
  /\ tpc = "start"
  /\ IF trackOptions.name = ""
     THEN /\ tpc' = "rejected"
          /\ trackResult' = Rejected(NewValidationError(<<"Track name is required">>,
                                                         "Track", "track.ts:80"))
          /\ UNCHANGED <<currentState, objs>>
     ELSE IF trackOptions.steps = 0
     THEN /\ tpc' = "rejected"
          /\ trackResult' = Rejected(NewValidationError(
                                       <<"Track requires at least one step">>,
                                       "Track", "track.ts:92"))
          /\ UNCHANGED <<currentState, objs>>
     ELSE LET t == InitialTrackState(trackOptions.name, ParentState, objs)
          IN /\ tpc' = "loop"
             /\ currentState' = t.state
             /\ objs' = t.objs
             /\ UNCHANGED trackResult
  /\ UNCHANGED <<callVars, trackOptions, trackIndex, trackTrace, retryVars, rollbackVars,
                 stepsVars, pipelineVars, trace, heap, parVars>>

\* `currentState = { ...currentState, metadata: { currentStep } }` and the call
\* of step.execute(currentState)
TrackStepCall ==
  /\ mode = "track"
  /\ tpc = "loop"
  /\ trackIndex <= trackOptions.steps
  /\ tpc' = "await"
  /\ currentState' = [currentState EXCEPT !.currentStep = TrackStepName(trackIndex)]
  /\ trackTrace' = Append(trackTrace, TrackEvent("call", trackIndex, currentState', objs))
  /\ UNCHANGED <<callVars, trackOptions, trackIndex, trackResult, objs, retryVars,
                 rollbackVars, stepsVars, pipelineVars, trace, heap, parVars>>

\* What the catch of executeTrackStep does with the error that left the loop:
\* it resolves with updatedState when the track has retries configured and
\* rejects with errorToThrow otherwise.
TrackCatch(name, state, cur, error, h) ==
  LET result == FailedTrackResult(name, cur, error, h)
      updated == TrackFailureState(state, result, h)
  IN IF trackRetry > 0
     THEN [promise |-> Resolved(updated.state), objs |-> updated.objs, built |-> result]
     ELSE [promise |-> Rejected(TrackErrorToThrow(name, cur, error)),
           objs |-> updated.objs, built |-> result]

\* step.execute settles: the next iteration, or the catch blocks
TrackStepSettle ==
  /\ mode = "track"
  /\ tpc = "await"
  /\ \E out \in TrackStepOutcomes :
       IF out.kind \in {"ok", "mutate"}
       THEN LET r == TrackStepReturn(out, currentState, trackIndex, trackIndex, objs)
            IN /\ currentState' = r.state
               /\ objs' = r.objs
               /\ tpc' = "loop"
               /\ trackIndex' = trackIndex + 1
               /\ trackTrace' = Append(trackTrace,
                                        TrackEvent(out.kind, trackIndex, r.state, r.objs))
               /\ UNCHANGED trackResult
       ELSE LET failed == [currentState EXCEPT !.errors = Append(@, AsError(out.err))]
                ev == TrackEvent("fail", trackIndex, failed, objs)
            IN /\ currentState' = failed
               /\ IF trackContinueOnError
                  THEN /\ tpc' = "loop"
                       /\ trackIndex' = trackIndex + 1
                       /\ trackTrace' = Append(trackTrace, ev)
                       /\ UNCHANGED <<trackResult, objs>>
                  ELSE LET c == TrackCatch(trackOptions.name, ParentState, failed,
                                           TrackStepFailure(trackOptions.name,
                                                            failed.currentStep, out.err),
                                           objs)
                       IN /\ tpc' = c.promise.status
                          /\ trackResult' = c.promise
                          /\ objs' = c.objs
                          /\ trackTrace' = Append(trackTrace, ev)
                          /\ UNCHANGED trackIndex
  /\ UNCHANGED <<callVars, trackOptions, retryVars, rollbackVars, stepsVars,
                 pipelineVars, trace, heap, parVars>>

\* the loop has ended: trackResult and the combined state
TrackFinish ==
  /\ mode = "track"
  /\ tpc = "loop"
  /\ trackIndex > trackOptions.steps
  /\ LET result == CompletedTrackResult(trackOptions.name, currentState, objs)
         r == TrackReturn(ParentState, currentState, result, objs)
     IN /\ tpc' = "resolved"
        /\ trackResult' = Resolved(r.state)
        /\ objs' = r.objs
  /\ UNCHANGED <<callVars, trackOptions, trackIndex, currentState, trackTrace, retryVars,
                 rollbackVars, stepsVars, pipelineVars, trace, heap, parVars>>

(* -------------------------- parallel runner ---------------------------- *)
\* the destructured ParallelOptions, with their defaults, and NODE_ENV
parContinueOnError == Nullish(parOptions.continueOnError, TRUE)
parIncludeInResults == Nullish(parOptions.includeInResults, TRUE)
parTimeout == Nullish(parOptions.timeout, 300000)
mergeFunction == Nullish(parOptions.mergeFunction, "defaultMergeFunction")
TestEnvironment == parOptions.nodeEnv = "test"

TrackName(i) == <<"t1", "t2", "t3", "t4">>[i]

\* the state the step that parallel() creates hands to executeParallelStep
ParallelInput == [ParentState EXCEPT !.currentStep = "Parallel"]

NewParallelError(message, step, retry, site) ==
  [cls |-> "ParallelError", code |-> "processing_error", step |-> step,
   msg |-> message, retry |-> retry, details |-> NoDetails, stack |-> site]

\* the error the shared timer rejects with
ParallelTimeoutError ==
  [cls |-> "TimeoutError", code |-> "timeout_error", step |-> "Parallel",
   msg |-> <<"Parallel execution timed out">>, retry |-> TRUE, details |-> NoDetails,
   stack |-> "parallel.ts:120"]

\* What a track does between its call and its settling.  A track made by
\* track() with one step: executeTrackStep as a whole, called through the step
\* factory, which stamps currentStep and passes the track's errors through.
TrackRun(name, v, state, out, h) ==
  LET given == [state EXCEPT !.currentStep = "Track"]
      t == InitialTrackState(name, given, h)
      cur == [t.state EXCEPT !.currentStep = TrackStepName(1)]
      failed == [cur EXCEPT !.errors = Append(@, AsError(out.err))]
  IN IF out.kind \in {"ok", "mutate"}
     THEN LET r == TrackStepReturn(out, cur, 1, v, t.objs)
              ret == TrackReturn(given, r.state,
                                 CompletedTrackResult(name, r.state, r.objs), r.objs)
          IN [promise |-> Resolved(ret.state), objs |-> ret.objs]
     ELSE IF trackContinueOnError
     THEN LET ret == TrackReturn(given, failed,
                                 CompletedTrackResult(name, failed, t.objs), t.objs)
          IN [promise |-> Resolved(ret.state), objs |-> ret.objs]
     ELSE LET c == TrackCatch(name, given, failed,
                              TrackStepFailure(name, failed.currentStep, out.err), t.objs)
          IN [promise |-> c.promise, objs |-> c.objs]

\* what a step resolves with when its executor returns nothing
UndefinedState == TrackState(0, <<>>, <<>>, "undefined", "undefined")

\* A bare step: it returns the state with one more entry and fragment, it
\* returns nothing, or it rejects with what it threw.
StepRun(name, v, state, out, h) ==
  IF out.kind = "ok"
  THEN LET r == TrackStepReturn(out, state, 1, v, h)
       IN [promise |-> Resolved(r.state), objs |-> r.objs]
  ELSE IF out.kind = "undefined"
  THEN [promise |-> Resolved(UndefinedState), objs |-> h]
  ELSE [promise |-> Rejected(out.err), objs |-> h]

ParallelTrackOutcomes ==
  {out \in TrackStepOutcomes : out.kind # "mutate" /\ out.err # NetFatal}

\* a bare step is user code: it may also resolve with undefined
BareStepOutcomes == ParallelTrackOutcomes \cup {[kind |-> "undefined", err |-> NoError]}
OutcomesOf(i) ==
  IF parOptions.bareFirst /\ i = 1 THEN BareStepOutcomes ELSE ParallelTrackOutcomes

TrackExecute(i, state, out, h) ==
  IF parOptions.bareFirst /\ i = 1
  THEN StepRun(TrackName(i), 10 * i, state, out, h)
  ELSE TrackRun(TrackName(i), 10 * i, state, out, h)

\* tracks.map(async (track) => ...): every track is called, in array order
DispatchCount_OnlyFirst(n) == 1

DispatchCount(n) == n

\* The promise of a track as trackPromises holds it: a rejection becomes a
\* state carrying the error when continueOnError, and is rethrown otherwise.
TrackPromiseRethrows == (TestEnvironment /\ ~parContinueOnError) \/ ~parContinueOnError

TrackErrorState(i, state, error) ==
  [state EXCEPT !.errors =
     Append(@, IF InstanceOfError(error) THEN error
               ELSE NewParallelError(<<"Track", TrackName(i), "failed:">> \o MessageOf(error),
                                     "Parallel", FALSE, "parallel.ts:162"))]

MappedTrackPromise(i, state, promise) ==
  IF promise.status = "resolved" THEN promise
  ELSE IF TrackPromiseRethrows THEN Rejected(promise.error)
  ELSE Resolved(TrackErrorState(i, state, promise.error))

\* the outer catch of executeParallelStep
ParallelOuterCatch(error) ==
  IF error.cls \in {"ValidationError", "ConfigurationError", "TimeoutError",
                    "ParallelError"}
  THEN Rejected(error)
  ELSE Rejected(NewParallelError(
         <<"Parallel execution failed to initialize:">> \o MessageOf(error),
         "Parallel", FALSE, "parallel.ts:387"))

\* The inner catch of executeParallelStep, after clearTimeout: the error is
\* rethrown to the outer catch in a test environment without continueOnError
\* and folded into the returned state otherwise.
ParallelInnerCatch(state, error) ==
  IF TestEnvironment /\ ~parContinueOnError
  THEN ParallelOuterCatch(error)
  ELSE Resolved([state EXCEPT !.errors =
         Append(@, IF InstanceOfError(error) THEN error
                   ELSE NewParallelError(
                          <<"Parallel execution failed:">> \o MessageOf(error),
                          "Parallel", TRUE, "parallel.ts:349"))])

RECURSIVE SpreadAll(_)
SpreadAll(maps) ==
  IF maps = <<>> THEN EmptyMap
  ELSE Spread(SpreadAll(SubSeq(maps, 1, Len(maps) - 1)), maps[Len(maps)])

RECURSIVE Concat(_)
Concat(seqs) ==
  IF seqs = <<>> THEN <<>>
  ELSE Concat(SubSeq(seqs, 1, Len(seqs) - 1)) \o seqs[Len(seqs)]

\* defaultMergeFunction(tracks)
defaultMergeFunction(tracks) ==
  [byTrack |-> [n \in DOMAIN tracks |->
     IF tracks[n].completed
     THEN [results |-> tracks[n].results, errors |-> <<>>, completed |-> TRUE]
     ELSE [results |-> <<>>, errors |-> tracks[n].errors, completed |-> FALSE]]]

MergeThrows == PlainError

\* `trackState.errors` of a track state that is undefined throws, outside the
\* try of the merge
CollectThrows(trackStates) ==
  \E i \in 1..Len(trackStates) : trackStates[i] = UndefinedState
CollectTypeError ==
  [ReadOfUndefined("parallel.ts:216") EXCEPT
     !.msg = <<"Cannot read properties of undefined (reading 'errors')">>]

\* a quotient of two integers, kept as the pair it is computed from
Ratio(num, den) == [num |-> num, den |-> den]
SameRatio(r, num, den) == r.num * den = num * r.den

\* The collection of the track states, the merge and the returned state
\* (the success path of executeParallelStep after the race).
ParallelCollect(state, trackStates, h) ==
  LET n == Len(trackStates)
      trackResults == SpreadAll([i \in 1..n |-> h[trackStates[i].data].tracks])
      mergedData == SpreadAll(<<h[state.data].kv>>
                                \o [i \in 1..n |-> h[trackStates[i].data].kv])
      allResults == state.results \o Concat([i \in 1..n |-> trackStates[i].results])
      allErrors == state.errors \o Concat([i \in 1..n |-> trackStates[i].errors])
      merged == mergeFunction = "defaultMergeFunction"
      mergedResult == defaultMergeFunction(trackResults)
      completedTracks == Cardinality({t \in DOMAIN trackResults : trackResults[t].completed})
      count == Cardinality(DOMAIN trackResults)
      data == [kv |-> mergedData, tracks |-> trackResults,
               parallelMerged |-> IF merged THEN <<mergedResult>> ELSE <<>>]
      results == IF merged /\ parIncludeInResults
                 THEN Append(allResults,
                             Fragment("parallel", "parallel",
                                      <<[tracks |-> DOMAIN trackResults]>>))
                 ELSE allResults
      errors == IF merged THEN allErrors
                ELSE Append(allErrors,
                            NewParallelError(<<"Failed to merge parallel results:">>
                                               \o MessageOf(MergeThrows),
                                             "ParallelMerge", FALSE, "parallel.ts:282"))
  IN [state |-> [data |-> Len(h) + 1, results |-> results, errors |-> errors,
                 currentStep |-> state.currentStep, currentTrack |-> state.currentTrack,
                 parallelTracks |-> [count |-> count, completed |-> completedTracks,
                                     failed |-> count - completedTracks,
                                     successRate |-> IF count > 0
                                                     THEN Ratio(completedTracks, count)
                                                     ELSE Ratio(0, 1)]],
      objs |-> Append(h, data)]

ParEvent(ev, i, arg, h) ==
  [ev |-> ev, track |-> i, arg |-> arg, data |-> h[arg.data], err |-> NoError]

Idle == [status |-> "idle", value |-> NoState, error |-> NoError]

\* executeParallelStep up to the race: validation, the timer, and the call of
\* every track with the state the runner was given
ParStart ==
  /\ mode = "parallel"
  /\ parpc = "start"
  /\ IF parOptions.tracks = 0
     THEN /\ parResult' = ParallelOuterCatch(NewValidationError(
                             <<"At least one track is required">>, "Parallel",
                             "parallel.ts:70"))
          /\ parpc' = "rejected"
          /\ UNCHANGED <<promises, parTimer, parTrace>>
     ELSE IF parTimeout <= 0
     THEN /\ parResult' = ParallelOuterCatch(NewValidationError(
                             <<"Invalid timeout value">>, "Parallel", "parallel.ts:98"))
          /\ parpc' = "rejected"
          /\ UNCHANGED <<promises, parTimer, parTrace>>
     ELSE /\ parpc' = "racing"
          /\ parTimer' = "armed"
          /\ promises' = [i \in 1..parOptions.tracks |->
                            IF i <= DispatchCount(parOptions.tracks) THEN Pending ELSE Idle]
          /\ parTrace' = [i \in 1..DispatchCount(parOptions.tracks) |->
                            ParEvent("call", i, ParallelInput, objs)]
          /\ UNCHANGED parResult
  /\ UNCHANGED <<callVars, trackVars, parOptions, parClearCalls, mergeCalls, retryVars,
                 rollbackVars, stepsVars, pipelineVars, trace, heap>>

\* A track settles.  While the runner awaits the race, the first rejection of a
\* mapped promise rejects Promise.all and runs the inner catch; the last
\* resolution resolves it, clears the timer and runs the collection and the
\* merge; an error thrown by the collection runs the inner catch.  Once the
\* race is decided nothing reads a promise any more: a track that settles
\* then only leaves the status of its promise.
ParTrackSettle ==
  /\ mode = "parallel"
  /\ parpc \in {"racing", "resolved", "rejected"}
  /\ \E i \in 1..Len(promises) : \E out \in OutcomesOf(i) :
       /\ promises[i].status = "pending"
       /\ LET run == TrackExecute(i, ParallelInput, out, objs)
              mapped == MappedTrackPromise(i, ParallelInput, run.promise)
              settled == [promises EXCEPT ![i] = mapped]
              all == \A k \in 1..Len(settled) : settled[k].status = "resolved"
              throws == CollectThrows([k \in 1..Len(settled) |-> settled[k].value])
              collected == ParallelCollect(ParallelInput,
                                           [k \in 1..Len(settled) |-> settled[k].value],
                                           run.objs)
              event == [ev |-> IF run.promise.status = "resolved"
                               THEN "resolve" ELSE "reject",
                        track |-> i, arg |-> NoState, data |-> EmptyData,
                        err |-> run.promise.error]
          IN /\ IF parpc = "racing"
                THEN /\ promises' = settled
                     /\ parTrace' = Append(parTrace, event)
                ELSE /\ promises' = [promises EXCEPT ![i] =
                                       [Idle EXCEPT !.status = mapped.status]]
                     /\ parTrace' = parTrace
             /\ IF parpc = "racing" /\ mapped.status = "rejected"
                THEN /\ parResult' = ParallelInnerCatch(ParallelInput, mapped.error)
                     /\ parpc' = parResult'.status
                     /\ parTimer' = ClearTimeout(parTimer)
                     /\ parClearCalls' = parClearCalls + 1
                     /\ objs' = run.objs
                     /\ UNCHANGED mergeCalls
                ELSE IF parpc = "racing" /\ all /\ throws
                THEN /\ parResult' = ParallelInnerCatch(ParallelInput, CollectTypeError)
                     /\ parpc' = parResult'.status
                     /\ parTimer' = ClearTimeout(ClearTimeout(parTimer))
                     /\ parClearCalls' = parClearCalls + 2
                     /\ objs' = run.objs
                     /\ UNCHANGED mergeCalls
                ELSE IF parpc = "racing" /\ all
                THEN /\ parResult' = Resolved(collected.state)
                     /\ parpc' = "resolved"
                     /\ parTimer' = ClearTimeout(parTimer)
                     /\ parClearCalls' = parClearCalls + 1
                     /\ mergeCalls' = mergeCalls + 1
                     /\ objs' = collected.objs
                ELSE /\ objs' = IF parpc = "racing" THEN run.objs ELSE objs
                     /\ UNCHANGED <<parResult, parpc, parTimer, parClearCalls, mergeCalls>>
  /\ UNCHANGED <<callVars, trackOptions, tpc, trackIndex, currentState, trackResult,
                 trackTrace, parOptions, retryVars, rollbackVars, stepsVars,
                 pipelineVars, trace, heap>>

\* The shared timer fires while the runner awaits the race: the race rejects
\* with the timeout error and the inner catch runs.
ParTimeout ==
  /\ mode = "parallel"
  /\ parTimer = "armed"
  /\ parpc = "racing"
  /\ parTimer' = ClearTimeout("fired")
  /\ parClearCalls' = parClearCalls + 1
  /\ parResult' = ParallelInnerCatch(ParallelInput, ParallelTimeoutError)
  /\ parpc' = parResult'.status
  /\ parTrace' = Append(parTrace,
                        [ev |-> "timeout", track |-> 0, arg |-> NoState,
                         data |-> EmptyData, err |-> ParallelTimeoutError])
  /\ UNCHANGED <<callVars, trackVars, parOptions, promises, mergeCalls, retryVars,
                 rollbackVars, stepsVars, pipelineVars, trace, heap>>

(* ------------------------------ merging -------------------------------- *)
\* A data value: a number, kept as the quotient num/den it is computed from
\* (NaN is 0/0), or an object, whose properties [k, v] are kept in insertion order.
NumberValue(n) == [type |-> "number", num |-> n, den |-> 1, props |-> <<>>]
Quotient(num, den) == [type |-> "number", num |-> num, den |-> den, props |-> <<>>]
NaN == Quotient(0, 0)
ObjectValue(props) == [type |-> "object", num |-> 0, den |-> 1, props |-> props]
Undefined == [type |-> "undefined", num |-> 0, den |-> 1, props |-> <<>>]

\* `x || d` of an optional number: undefined and 0 are falsy
OrElse(opt, d) == IF opt = {} \/ opt = {0} THEN d ELSE CHOOSE v \in opt : TRUE

\* value * weight and a + b of JavaScript numbers; an object operand gives NaN
Times(v, w) ==
  IF v.type = "number" /\ v.den # 0 THEN Quotient(v.num * w, v.den) ELSE NaN
Plus(a, b) ==
  IF a.den = 0 \/ b.den = 0 THEN NaN
  ELSE Quotient(a.num * b.den + b.num * a.den, a.den * b.den)
DividedBy(a, n) == IF a.den = 0 THEN NaN ELSE Quotient(a.num, a.den * n)

\* JSON.stringify(value), as the sequence of its characters or tokens: the
\* digits of a number, the properties of an object in insertion order
JSONStringify(v) ==
  LET DigitChar(d) == <<"0", "1", "2", "3", "4", "5", "6", "7", "8", "9">>[d + 1]
      RECURSIVE Digits(_)
      Digits(n) ==
        IF n < 10 THEN <<DigitChar(n)>> ELSE Digits(n \div 10) \o <<DigitChar(n % 10)>>
      RECURSIVE StringifyProps(_)
      StringifyProps(props) ==
        IF props = <<>> THEN <<>>
        ELSE LET front == SubSeq(props, 1, Len(props) - 1)
                 p == props[Len(props)]
             IN StringifyProps(front) \o (IF front = <<>> THEN <<>> ELSE <<",">>)
                  \o <<"\"", p.k, "\"", ":">> \o Digits(p.v)
  IN IF v.type = "object" THEN <<"{">> \o StringifyProps(v.props) \o <<"}">>
     ELSE IF v.type = "undefined" THEN <<"undefined">>
     ELSE IF v.den = 0 THEN <<"null">>
     ELSE IF v.den = 1 THEN Digits(v.num)
     ELSE Digits(v.num) \o <<"/">> \o Digits(v.den)

\* a TrackResult as mergeTrackData reads it: its data and metadata.confidence
\* (in tenths), which may be absent
MergeTrack(name, data, confidence) ==
  [name |-> name, data |-> data, confidence |-> confidence]

\* the metadata entry pushed along with a value
ValueMetadata(track) ==
  [trackName |-> track.name, confidence |-> OrElse(track.confidence, 5)]

DefaultMergeOptions ==
  [strategy |-> "last", weights |-> {}, customResolver |-> {}, confidenceExtractor |-> {}]

MergeReturn(v, called) ==
  [status |-> "returned", value |-> v, error |-> NoError, called |-> called]
\* `throw new Error(...)`
MergeThrow_ReturnsUndefined(e) == MergeReturn(Undefined, FALSE)

MergeThrow(e) ==
  [status |-> "threw", value |-> Undefined, error |-> e, called |-> FALSE]

MergeError(message, site) ==
  [cls |-> "Error", code |-> NoCode, step |-> NoStep, msg |-> <<message>>,
   retry |-> FALSE, details |-> NoDetails, stack |-> site]

\* confidences.sort((a, b) => b.confidence - a.confidence): a stable sort,
\* highest confidence first
RECURSIVE SortByConfidence(_)
SortByConfidence(q) ==
  IF q = <<>> THEN <<>>
  ELSE LET rest == SortByConfidence(SubSeq(q, 1, Len(q) - 1))
           x == q[Len(q)]
           k == Cardinality({i \in 1..Len(rest) : rest[i].confidence >= x.confidence})
       IN SubSeq(rest, 1, k) \o <<x>> \o SubSeq(rest, k + 1, Len(rest))

\* the Map of counts keyed by JSON.stringify(value), in insertion order
RECURSIVE CountValues(_)
CountValues(values) ==
  IF values = <<>> THEN <<>>
  ELSE LET counts == CountValues(SubSeq(values, 1, Len(values) - 1))
           v == values[Len(values)]
           hit == {i \in 1..Len(counts) : counts[i].key = JSONStringify(v)}
       IN IF hit = {}
          THEN Append(counts, [key |-> JSONStringify(v), count |-> 1, value |-> v])
          ELSE [i \in 1..Len(counts) |->
                  IF i \in hit THEN [counts[i] EXCEPT !.count = @ + 1] ELSE counts[i]]

\* counts.forEach: `if (count > maxCount)`
RECURSIVE MaxCounted(_)
MaxCounted(counts) ==
  IF counts = <<>> THEN [maxCount |-> 0, maxValue |-> Undefined]
  ELSE LET m == MaxCounted(SubSeq(counts, 1, Len(counts) - 1))
           c == counts[Len(counts)]
       IN IF c.count > m.maxCount THEN [maxCount |-> c.count, maxValue |-> c.value]
          ELSE m

\* `weights[trackName] || 1`
WeightOf(weights, trackName) ==
  IF trackName \in DOMAIN weights /\ weights[trackName] # 0
  THEN weights[trackName] ELSE 1

\* the loop over numeric values: weightedSum and totalWeight
RECURSIVE WeightedSums(_, _, _)
WeightedSums(values, metadata, weights) ==
  IF values = <<>> THEN [weightedSum |-> NumberValue(0), totalWeight |-> 0]
  ELSE LET n == Len(values)
           acc == WeightedSums(SubSeq(values, 1, n - 1), SubSeq(metadata, 1, n - 1),
                               weights)
           weight == WeightOf(weights, metadata[n].trackName)
       IN [weightedSum |-> Plus(acc.weightedSum, Times(values[n], weight)),
           totalWeight |-> acc.totalWeight + weight]

\* the loop over values that are no numbers: `if (weight > highestWeight)`
RECURSIVE HighestWeight(_, _, _)
HighestWeight(values, metadata, weights) ==
  IF values = <<>> THEN [highestWeight |-> -1, highestWeightValue |-> Undefined]
  ELSE LET n == Len(values)
           acc == HighestWeight(SubSeq(values, 1, n - 1), SubSeq(metadata, 1, n - 1),
                                weights)
           weight == WeightOf(weights, metadata[n].trackName)
       IN IF weight > acc.highestWeight
          THEN [highestWeight |-> weight, highestWeightValue |-> values[n]]
          ELSE acc

\* The custom resolver and the confidence extractor are user code.  The
\* resolver of this model returns the number of values it was given; the
\* extractor reads trackResult.metadata.confidence, as its type invites, and
\* is handed the metadata entry of the value, which has no `metadata`.
CustomResolver(values, metadata) == NumberValue(Len(values))
ExtractorThrows ==
  [ReadOfUndefined("user") EXCEPT
     !.msg = <<"Cannot read properties of undefined (reading 'confidence')">>]

\* ResultMerger.resolveConflict(values, metadata, options)
resolveConflict(values, metadata, opts) ==
  IF Len(values) = 0 THEN MergeReturn(Undefined, FALSE)
  ELSE IF Len(values) = 1 THEN MergeReturn(values[1], FALSE)
  ELSE IF opts.strategy = "first" THEN MergeReturn(values[1], FALSE)
  ELSE IF opts.strategy = "last" THEN MergeReturn(values[Len(values)], FALSE)
  ELSE IF opts.strategy = "mostConfident"
  THEN IF opts.confidenceExtractor # {}
       THEN MergeThrow(ExtractorThrows)
       ELSE LET withConfidence ==
                  [i \in 1..Len(values) |->
                     [value |-> values[i],
                      confidence |-> OrElse({metadata[i].confidence}, 0)]]
            IN MergeReturn(SortByConfidence(withConfidence)[1].value, FALSE)
  ELSE IF opts.strategy = "majority"
  THEN MergeReturn(MaxCounted(CountValues(values)).maxValue, FALSE)
  ELSE IF opts.strategy = "weighted"
  THEN IF opts.weights = {}
       THEN MergeThrow(MergeError(
              "Weights required for weighted conflict resolution strategy",
              "merge.ts:208"))
       ELSE LET weights == CHOOSE w \in opts.weights : TRUE
            IN IF values[1].type = "number"
               THEN LET sums == WeightedSums(values, metadata, weights)
                    IN MergeReturn(DividedBy(sums.weightedSum, sums.totalWeight), FALSE)
               ELSE MergeReturn(HighestWeight(values, metadata, weights).highestWeightValue,
                                FALSE)
  ELSE IF opts.strategy = "custom"
  THEN IF opts.customResolver = {}
       THEN MergeThrow(MergeError(
              "Custom resolver required for custom conflict resolution strategy",
              "merge.ts:249"))
       ELSE MergeReturn(CustomResolver(values, metadata), TRUE)
  ELSE MergeReturn(values[Len(values)], FALSE)

\* the keys mergeTrackData resolves: all keys of all tracks but `tracks`
MergedKeys_KeepsTracks(allKeys) == allKeys

MergedKeys(allKeys) == allKeys \ {"tracks"}

\* the tracks that define a key, in the order of trackEntries
Defining(tracks, key) == SelectSeq(tracks, LAMBDA t : key \in DOMAIN t.data)

\* ResultMerger.mergeTrackData(tracks, options = { strategy: 'last' }): the merged object and the
\* keys the custom resolver was called for, or the error thrown
mergeTrackData(tracks, opt) ==
  LET opts == Nullish(opt, DefaultMergeOptions)
      allKeys == UNION {DOMAIN tracks[i].data : i \in 1..Len(tracks)}
      keys == MergedKeys(allKeys)
      resolved == [key \in keys |->
                     LET from == Defining(tracks, key)
                     IN resolveConflict([i \in 1..Len(from) |-> from[i].data[key]],
                                        [i \in 1..Len(from) |-> ValueMetadata(from[i])],
                                        opts)]
      thrown == {key \in keys : resolved[key].status = "threw"}
  IN IF thrown # {}
     THEN [status |-> "threw", merged |-> EmptyMap,
           error |-> resolved[CHOOSE key \in thrown : TRUE].error, calledFor |-> {}]
     ELSE [status |-> "returned", merged |-> [key \in keys |-> resolved[key].value],
           error |-> NoError, calledFor |-> {key \in keys : resolved[key].called}]

NoMergeResult == [status |-> "pending", merged |-> EmptyMap, error |-> NoError,
                  calledFor |-> {}]

\* one call of ResultMerger.mergeTrackData(tracks, options)
MergeTrackDataCall ==
  /\ mode = "merge"
  /\ mergepc = "call"
  /\ mergeResult' = mergeTrackData(mergeTracks, mergeOptions)
  /\ mergepc' = "done"
  /\ UNCHANGED <<mode, options, steps, mergeTracks, mergeOptions, repVars, trackVars,
                 parVars, retryVars, rollbackVars, stepsVars, pipelineVars, trace, heap>>

(* ----------------------------- repeatUntil ----------------------------- *)
\* A state of this part: data.evaluations as the entries of the object in the
\* order of Object.keys, what the repeated steps wrote (one mark per step that
\* returned), errors, and data.iterations[conditionStep.name] when present.
RepeatState(evaluations, marks, errors, iterations) ==
  [evaluations |-> evaluations, marks |-> marks, errors |-> errors,
   iterations |-> iterations]
NoRepeatState == RepeatState(<<>>, <<>>, <<>>, <<>>)

\* the criteriaName of the condition step, and that of another evaluate step
ConditionName == "quality"
OtherName == "coverage"
RepeatedStepName(j) == <<"r1", "r2", "r3">>[j]

EvaluationResult(criteriaName, passed) == [criteria |-> criteriaName, passed |-> passed]

\* { ...(state.data.evaluations || {}), [criteriaName]: evaluationResult }: a
\* key the object holds keeps its place, a new key comes last
StoreEvaluation(evaluations, result) ==
  IF \E i \in 1..Len(evaluations) : evaluations[i].criteria = result.criteria
  THEN [i \in 1..Len(evaluations) |->
          IF evaluations[i].criteria = result.criteria THEN result ELSE evaluations[i]]
  ELSE Append(evaluations, result)

\* evaluate(): the criteria function threw, or returned no boolean
EvaluateFailure ==
  [cls |-> "ProcessingError", code |-> "processing_error", step |-> "Evaluate",
   msg |-> <<"Failed to execute evaluation criteria">>, retry |-> TRUE,
   details |-> NoDetails, stack |-> "flowControl.ts:103"]

\* What the condition step does: it stores its evaluation, passed or not, and
\* returns the new state, or it throws (the error of evaluate, or a value that
\* is no Error when it is a step of the caller's own).
ConditionOutcomes ==
  {[kind |-> k, err |-> NoError] : k \in {"pass", "fail"}}
    \cup {[kind |-> "throw", err |-> e] : e \in {EvaluateFailure, NonError}}
\* What a repeated step does: it returns the state it was given with its mark
\* added, or it throws.
RepeatedStepOutcomes ==
  {[kind |-> "ok", err |-> NoError], [kind |-> "throw", err |-> PlainError]}

executeEvaluateStep(state, passed) ==
  [state EXCEPT !.evaluations =
     StoreEvaluation(@, EvaluationResult(ConditionName, passed))]

RepeatedStepReturn(state, j) == [state EXCEPT !.marks = Append(@, RepeatedStepName(j))]

\* the state the RepeatUntil step is executed with
RepeatInput == RepeatState(repOptions.evaluations, <<>>, <<PriorError>>, <<>>)

\* the last key of Object.keys(evaluations) names an evaluation that passed
ConditionMet(conditionState) ==
  /\ conditionState.evaluations # <<>>
  /\ Last(conditionState.evaluations).passed

\* `error instanceof Error ? error : new Error(errorMessage)`
IterationError(e, site) ==
  IF InstanceOfError(e) THEN e
  ELSE [cls |-> "Error", code |-> NoCode, step |-> NoStep, msg |-> MessageOf(e),
        retry |-> FALSE, details |-> NoDetails, stack |-> site]

\* the ProcessingError that a failed repeated step leaves its loop with
RepeatedStepFailure(j, stepError) ==
  NewProcessingError(<<"Step", RepeatedStepName(j), "failed during iteration">>
                       \o MessageOf(stepError),
                     "RepeatUntil", stepError, "flowControl.ts:348")

NewMaxIterationsError ==
  [cls |-> "MaxIterationsError", code |-> "max_iterations_error",
   step |-> "RepeatUntil",
   msg |-> <<"Maximum iterations reached without meeting condition">>,
   retry |-> FALSE, details |-> NoDetails, stack |-> "flowControl.ts:399"]

\* the last catch of the executor
RepeatUntilCatch(error) ==
  IF error.cls \in {"ValidationError", "ConfigurationError", "ProcessingError",
                    "MaxIterationsError"}
  THEN error
  ELSE NewProcessingError(<<"RepeatUntil execution failed:">> \o MessageOf(error),
                          "RepeatUntil", error, "flowControl.ts:462")

\* (mutant: the errors of the iterations are counted but not returned)
finalState_WithoutIterationErrors(l) ==
  [l.currentState EXCEPT
     !.iterations = <<[completed |-> l.iterations,
                       conditionMet |-> l.conditionMet,
                       maxReached |-> l.iterations >= maxIterations,
                       iterationErrors |-> Len(l.iterationErrors) > 0,
                       errorCount |-> Len(l.iterationErrors)]>>]

\* the state the executor returns
finalState(l) ==
  [l.currentState EXCEPT
     !.iterations = <<[completed |-> l.iterations,
                       conditionMet |-> l.conditionMet,
                       maxReached |-> l.iterations >= maxIterations,
                       iterationErrors |-> Len(l.iterationErrors) > 0,
                       errorCount |-> Len(l.iterationErrors)]>>,
     !.errors = @ \o l.iterationErrors]

\* where the run of the RepeatUntil step stands: the position, the locals
\* of the executor, the promise of execute and the locals of executeWithRetry
Position(pc, l, result) ==
  [pc |-> pc, loop |-> l, result |-> result, attempt |-> attempt,
   lastError |-> lastError]

\* The executor throws: its last catch, the catch of executeFunc, and the
\* catch of executeWithRetry, which rethrows or waits before the next run.
ExecutorThrows(l, error) ==
  LET e == ExecuteFuncThrows(RepeatUntilCatch(error), "RepeatUntil", "steps.ts:80")
      rethrows == IF attempt = 0 THEN FirstCatchRethrows(e)
                  ELSE RetryCatchRethrows(e, attempt)
  IN IF rethrows \/ ~RetryLoopContinues(attempt)
     THEN [Position("rejected", l, Rejected(e)) EXCEPT !.lastError = e]
     ELSE [Position("wait", l, Pending) EXCEPT !.attempt = attempt + 1,
                                               !.lastError = e]

\* after the while loop: throw MaxIterationsError, or return finalState
AfterLoop(l) ==
  IF ~l.conditionMet /\ throwOnMaxIterations
  THEN ExecutorThrows(l, NewMaxIterationsError)
  ELSE Position("resolved", l, Resolved(finalState(l)))

\* while (iterations < maxIterations && !conditionMet) { iterations += 1;
\* ... await conditionStep.execute(currentState)
WhileLoop(l) ==
  IF l.iterations < maxIterations /\ ~l.conditionMet
  THEN Position("condition", [l EXCEPT !.iterations = @ + 1, !.index = 0], Pending)
  ELSE AfterLoop(l)

\* catch (iterationError) of an iteration
IterationCatch(l, iterationError) ==
  LET pushed == [l EXCEPT !.iterationErrors =
                   Append(@, IterationError(iterationError, "flowControl.ts:378"))]
  IN IF ~repeatContinueOnError THEN ExecutorThrows(pushed, iterationError)
     ELSE WhileLoop(pushed)

\* for (const step of stepsToRepeat): the next step, or the end of the iteration
NextRepeatedStep(l) ==
  IF l.index < NumRepeatedSteps
  THEN Position("step", [l EXCEPT !.index = @ + 1], Pending)
  ELSE WhileLoop(l)

\* the state a repeated step is executed with: step.execute(conditionState)
RepeatedStepArgument(l) == l.conditionState

\* the condition step has settled: the rest of the iteration up to the next await
ConditionSettles(l, out) ==
  IF out.kind = "throw" THEN IterationCatch(l, out.err)
  ELSE LET conditionState == executeEvaluateStep(l.currentState, out.kind = "pass")
       IN IF ConditionMet(conditionState)
          THEN AfterLoop([l EXCEPT !.conditionMet = TRUE,
                                   !.currentState = conditionState,
                                   !.conditionState = conditionState])
          ELSE NextRepeatedStep([l EXCEPT !.conditionState = conditionState])

\* a repeated step has settled: the assignment or the catch, then what follows
RepeatedStepSettles(l, out) ==
  IF out.kind = "ok"
  THEN NextRepeatedStep([l EXCEPT !.currentState =
                           RepeatedStepReturn(RepeatedStepArgument(l), l.index)])
  ELSE LET pushed == [l EXCEPT !.iterationErrors =
                        Append(@, IterationError(out.err, "flowControl.ts:343"))]
       IN IF ~repeatContinueOnError
          THEN IterationCatch(pushed, RepeatedStepFailure(l.index, out.err))
          ELSE NextRepeatedStep(pushed)

\* an entry of repTrace: the call of the condition step or of a repeated step
\* (index 0 is the condition step), or how it settled
RepeatEvent(ev, l, arg, val, err) ==
  [ev |-> ev, run |-> calls, iteration |-> l.iterations, index |-> l.index,
   arg |-> arg, val |-> val, err |-> err]

\* the call that a position awaits
AwaitedCall(r) ==
  IF r.pc = "condition"
  THEN <<[RepeatEvent("call", r.loop, r.loop.currentState, NoRepeatState, NoError)
            EXCEPT !.run = IF reppc \in {"created", "wait"} THEN calls + 1 ELSE calls]>>
  ELSE IF r.pc = "step"
  THEN <<RepeatEvent("call", r.loop, RepeatedStepArgument(r.loop), NoRepeatState,
                     NoError)>>
  ELSE <<>>

\* the run moves to position r, after the events given
RepeatGoesTo(r, events) ==
  /\ reppc' = r.pc
  /\ loop' = r.loop
  /\ callResult' = r.result
  /\ attempt' = r.attempt
  /\ lastError' = r.lastError
  /\ repTrace' = repTrace \o events \o AwaitedCall(r)

NewLoop ==
  [iterations |-> 0, conditionMet |-> FALSE, iterationErrors |-> <<>>,
   currentState |-> RepeatInput, conditionState |-> NoRepeatState, index |-> 0]

\* repeatUntil(conditionStep, stepsToRepeat, options): the validation
RepeatUntilCall ==
  /\ mode = "repeat"
  /\ reppc = "new"
  /\ IF maxIterations <= 0
     THEN /\ reppc' = "invalid"
          /\ callResult' = Rejected(NewValidationError(
                             <<"Invalid maxIterations value">>, "RepeatUntil",
                             "flowControl.ts:267"))
     ELSE /\ reppc' = "created"
          /\ UNCHANGED callResult
  /\ UNCHANGED <<mode, options, steps, mergeVars, repOptions, loop, repTrace, trackVars,
                 parVars, rpc, attempt, lastError, calls, callArg, rollbackVars,
                 stepsVars, pipelineVars, trace, heap>>

\* execute(state) of the step: executeWithRetry calls executeFunc, which runs
\* the executor up to the first call of the condition step
RepeatExecuteCall ==
  /\ mode = "repeat"
  /\ reppc = "created"
  /\ calls' = calls + 1
  /\ RepeatGoesTo(WhileLoop(NewLoop), <<>>)
  /\ UNCHANGED <<mode, options, steps, mergeVars, repOptions, trackVars, parVars, rpc,
                 callArg, rollbackVars, stepsVars, pipelineVars, trace, heap>>

\* conditionStep.execute(currentState) settles
ConditionSettle ==
  /\ mode = "repeat"
  /\ reppc = "condition"
  /\ \E out \in ConditionOutcomes :
       LET returned == IF out.kind = "throw" THEN NoRepeatState
                       ELSE executeEvaluateStep(loop.currentState, out.kind = "pass")
       IN RepeatGoesTo(ConditionSettles(loop, out),
                       <<RepeatEvent(out.kind, loop, loop.currentState, returned,
                                     out.err)>>)
  /\ UNCHANGED <<mode, options, steps, mergeVars, repOptions, trackVars, parVars, rpc,
                 calls, callArg, rollbackVars, stepsVars, pipelineVars, trace, heap>>

\* step.execute(conditionState) of a repeated step settles
RepeatedStepSettle ==
  /\ mode = "repeat"
  /\ reppc = "step"
  /\ \E out \in RepeatedStepOutcomes :
       LET arg == RepeatedStepArgument(loop)
           returned == IF out.kind = "throw" THEN NoRepeatState
                       ELSE RepeatedStepReturn(arg, loop.index)
       IN RepeatGoesTo(RepeatedStepSettles(loop, out),
                       <<RepeatEvent(out.kind, loop, arg, returned, out.err)>>)
  /\ UNCHANGED <<mode, options, steps, mergeVars, repOptions, trackVars, parVars, rpc,
                 calls, callArg, rollbackVars, stepsVars, pipelineVars, trace, heap>>

\* the delay of executeWithRetry elapses: executeFunc runs the executor again
RepeatRetryDelayElapsed ==
  /\ mode = "repeat"
  /\ reppc = "wait"
  /\ calls' = calls + 1
  /\ RepeatGoesTo(WhileLoop(NewLoop), <<>>)
  /\ UNCHANGED <<mode, options, steps, mergeVars, repOptions, trackVars, parVars, rpc,
                 callArg, rollbackVars, stepsVars, pipelineVars, trace, heap>>

(* --------------------------- specification ----------------------------- *)
OptInts(lo, hi) == {{}} \cup {{n} : n \in lo..hi}
OptBool == {{}, {TRUE}, {FALSE}}

InitCommon ==
  /\ attempt = 0
  /\ lastError = NoError
  /\ calls = 0
  /\ callResult = Pending
  /\ rbpc = "idle"
  /\ rbArg = NoState
  /\ rbResult = Pending
  /\ trace = <<>>

InitNoPipeline ==
  /\ heap = <<<<>>>>
  /\ spc = "idle"
  /\ stepIndex = 1
  /\ stepsState = NoState
  /\ ppc = "idle"
  /\ pipelineState = NoState
  /\ timer = "none"
  /\ firings = 0
  /\ clearCalls = 0
  /\ raceWinner = "none"

InitDirect ==
  /\ mode = "direct"
  /\ options \in [maxRetries : OptInts(-1, MaxRetriesBound),
                  retryDelay : {{}, {100}},
                  backoffFactor : {{}, {3}},
                  retryableErrors : {{}} \cup {{p} : p \in CustomPredicates}]
  /\ steps = <<>>
  /\ rpc = "first"
  /\ callArg = InputState

InitCreateStep ==
  /\ mode = "createStep"
  /\ options \in [retryable : OptBool,
                  maxRetries : OptInts(0, MaxRetriesBound),
                  retryDelay : {{}, {100}},
                  backoffFactor : {{}}]
  /\ steps = <<>>
  /\ rpc = "start"
  /\ callArg = NoState

InitWrapStep ==
  /\ mode = "wrapStep"
  /\ options \in [retryable : OptBool,
                  maxRetries : {{1}},
                  retryDelay : {{}},
                  backoffFactor : {{}}]
  /\ steps \in {<<s>> : s \in [retryable : OptBool, hasRollback : BOOLEAN]}
  /\ rpc = "start"
  /\ callArg = NoState

\* executePipeline has built its state, armed the timer and called
\* executeSteps, which stands at the top of its loop.
InitPipeline ==
  /\ mode = "pipeline"
  /\ options \in [errorHandling : {{}, {"continue"}, {"rollback"}},
                  continueOnError : {{}, {TRUE}},
                  maxRetries : {{}, {0}}]
  /\ steps \in [1..NumSteps -> [retryable : {{}, {TRUE}}, hasRollback : BOOLEAN]]
  /\ rpc = "idle"
  /\ callArg = NoState
  /\ heap = <<InitialErrors>>
  /\ spc = "next"
  /\ stepIndex = 1
  /\ stepsState = InputState
  /\ ppc = "racing"
  /\ pipelineState = InputState
  /\ timer = "armed"
  /\ firings = 0
  /\ clearCalls = 0
  /\ raceWinner = "none"

\* no track is run
NoTrackOptions ==
  [name |-> "", steps |-> 0, isolate |-> {}, includeInResults |-> {},
   continueOnError |-> {}, maxRetries |-> {}, parentHasTracks |-> FALSE]
NoTrackState == TrackState(0, <<>>, <<>>, "undefined", "undefined")

InitNoTrack ==
  /\ trackOptions = NoTrackOptions
  /\ tpc = "idle"
  /\ trackIndex = 1
  /\ currentState = NoTrackState
  /\ trackResult = Pending
  /\ trackTrace = <<>>
  /\ objs = <<>>

NoParallelOptions ==
  [tracks |-> 0, bareFirst |-> FALSE, continueOnError |-> {}, includeInResults |-> {},
   timeout |-> {}, mergeFunction |-> {}, nodeEnv |-> "production"]

InitNoParallel ==
  /\ parOptions = NoParallelOptions
  /\ parpc = "idle"
  /\ promises = <<>>
  /\ parResult = Pending
  /\ parTimer = "none"
  /\ parClearCalls = 0
  /\ mergeCalls = 0
  /\ parTrace = <<>>

NoRepeatOptions ==
  [maxIterations |-> {}, throwOnMaxIterations |-> {}, continueOnError |-> {},
   retryMaxRetries |-> {}, evaluations |-> <<>>]

InitNoRepeat ==
  /\ repOptions = NoRepeatOptions
  /\ reppc = "idle"
  /\ loop = NewLoop
  /\ repTrace = <<>>

InitNoMerge ==
  /\ InitNoRepeat
  /\ mergeTracks = <<>>
  /\ mergeOptions = {}
  /\ mergepc = "idle"
  /\ mergeResult = NoMergeResult

Init ==
  /\ InitCommon
  /\ InitNoTrack
  /\ InitNoParallel
  /\ InitNoMerge
  /\ \/ (InitDirect \/ InitCreateStep \/ InitWrapStep) /\ InitNoPipeline
     \/ InitPipeline

Next ==
  \/ StepExecuteCall
  \/ FnInvoke
  \/ FnSettle
  \/ RetryLoop
  \/ RetryDelayElapsed
  \/ WrappedRollbackCall
  \/ WrappedRollbackSettle
  \/ StepStart
  \/ AfterStep
  \/ RollbackSettle
  \/ ExecuteStepsReturn
  \/ TimeoutFires

Spec == Init /\ [][Next]_vars

\* One call of executeTrackStep(state, options), as the executor of the step
\* that track(options) creates.
InitTrack ==
  /\ InitCommon
  /\ InitNoPipeline
  /\ InitNoParallel
  /\ InitNoMerge
  /\ mode = "track"
  /\ options = NoTrackOptions
  /\ steps = <<>>
  /\ rpc = "idle"
  /\ callArg = NoState
  /\ trackOptions \in [name : {"", "t1"},
                       steps : 0..MaxTrackSteps,
                       isolate : OptBool,
                       includeInResults : {{}, {FALSE}},
                       continueOnError : {{}, {TRUE}},
                       maxRetries : {{}, {1}},
                       parentHasTracks : BOOLEAN]
  /\ tpc = "start"
  /\ trackIndex = 1
  /\ currentState = NoTrackState
  /\ trackResult = Pending
  /\ trackTrace = <<>>
  /\ objs = <<ParentData(trackOptions.parentHasTracks)>>

NextTrack ==
  \/ TrackStart
  \/ TrackStepCall
  \/ TrackStepSettle
  \/ TrackFinish

SpecTrack == InitTrack /\ [][NextTrack]_vars

\* One call of executeParallelStep(state, options), as the executor of the
\* step that parallel(options) creates.  The tracks are made by track() from
\* one step each and share their options but for the name; the first one may
\* be a bare step instead.
InitParallel ==
  /\ InitCommon
  /\ InitNoPipeline
  /\ InitNoMerge
  /\ mode = "parallel"
  /\ options = NoTrackOptions
  /\ steps = <<>>
  /\ rpc = "idle"
  /\ callArg = NoState
  /\ trackOptions \in [name : {"t1"},
                       steps : {1},
                       isolate : {{}},
                       includeInResults : {{}},
                       continueOnError : {{}},
                       maxRetries : {{}, {1}},
                       parentHasTracks : BOOLEAN]
  /\ tpc = "idle"
  /\ trackIndex = 1
  /\ currentState = NoTrackState
  /\ trackResult = Pending
  /\ trackTrace = <<>>
  /\ objs = <<ParentData(trackOptions.parentHasTracks)>>
  /\ \/ parOptions \in [tracks : {NumTracks},
                        bareFirst : BOOLEAN,
                        continueOnError : {{}, {FALSE}},
                        includeInResults : {{}, {FALSE}},
                        timeout : {{}},
                        mergeFunction : {{}, {"throws"}},
                        nodeEnv : {"test", "production"}]
     \/ parOptions \in [tracks : {0, NumTracks},
                        bareFirst : {FALSE},
                        continueOnError : {{TRUE}},
                        includeInResults : {{}},
                        timeout : {{}, {0}},
                        mergeFunction : {{}},
                        nodeEnv : {"production"}]
  /\ parpc = "start"
  /\ promises = <<>>
  /\ parResult = Pending
  /\ parTimer = "none"
  /\ parClearCalls = 0
  /\ mergeCalls = 0
  /\ parTrace = <<>>

NextParallel ==
  \/ ParStart
  \/ ParTrackSettle
  \/ ParTimeout

SpecParallel == InitParallel /\ [][NextParallel]_vars

\* One call of ResultMerger.mergeTrackData(tracks, options).  The tracks are
\* named A, B, C, ... in the order of Object.entries.  Every track may define the key x; y is defined by the
\* first track, by all or by none, and so is `tracks`.  What the tracks hold
\* under x depends on the strategy under test: a number of their own (first,
\* last, custom, mostConfident, no options), one of two numbers and two
\* objects that differ in the order of their properties (majority), or one of
\* two numbers (weighted).
InitMerge ==
  LET MergeTrackName(i) == <<"A", "B", "C", "D", "E">>[i]
      OwnValue(i) == NumberValue(10 * i)
      Object1 == ObjectValue(<<[k |-> "a", v |-> 1], [k |-> "b", v |-> 2]>>)
      Object2 == ObjectValue(<<[k |-> "b", v |-> 2], [k |-> "a", v |-> 1]>>)
      MajorityValues == {NumberValue(1), NumberValue(2), Object1, Object2}
      WeightedValues == {NumberValue(10), NumberValue(20)}
      Confidences == {{}, {0}, {3}, {9}}
      Weights == {0, 1, 3}
      Definers == {"none", "first", "all"}
      OptOf(S) == {{}} \cup {{v} : v \in S}
      \* the data object of track i: x is an optional value
      TrackDataOf(i, x, yBy, tracksBy) ==
        LET has(by) == by = "all" \/ (by = "first" /\ i = 1)
            keys == (IF x = {} THEN {} ELSE {"x"})
                      \cup (IF has(yBy) THEN {"y"} ELSE {})
                      \cup (IF has(tracksBy) THEN {"tracks"} ELSE {})
        IN [k \in keys |-> IF k = "x" THEN CHOOSE v \in x : TRUE
                           ELSE IF k = "y" THEN NumberValue(7)
                           ELSE ObjectValue(<<>>)]
      MergeInput(n, xs, confidences, yBy, tracksBy) ==
        [i \in 1..n |-> MergeTrack(MergeTrackName(i),
                                   TrackDataOf(i, xs[i], yBy, tracksBy), confidences[i])]
      WeightMaps(n) ==
        UNION {[names -> Weights] : names \in SUBSET {MergeTrackName(i) : i \in 1..n}}
      Own(n, own) == [i \in 1..n |-> IF own[i] THEN {OwnValue(i)} ELSE {}]
      NoConfidence(n) == [i \in 1..n |-> {}]
  IN
  /\ InitCommon
  /\ InitNoPipeline
  /\ InitNoTrack
  /\ InitNoParallel
  /\ InitNoRepeat
  /\ mode = "merge"
  /\ options = NoTrackOptions
  /\ steps = <<>>
  /\ rpc = "idle"
  /\ callArg = NoState
  /\ mergepc = "call"
  /\ mergeResult = NoMergeResult
  /\ \E n \in 0..MaxMergeTracks :
       \/ \E own \in [1..n -> BOOLEAN], cs \in [1..n -> Confidences],
             yBy \in Definers, tracksBy \in {"none", "all"},
             extractor \in {{}, {"metadata.confidence"}} :
            /\ mergeTracks = MergeInput(n, Own(n, own), cs, yBy, tracksBy)
            /\ mergeOptions = {[DefaultMergeOptions EXCEPT
                                  !.strategy = "mostConfident",
                                  !.confidenceExtractor = extractor]}
       \/ \E xs \in [1..n -> OptOf(MajorityValues)], yBy \in {"none", "first"} :
            /\ mergeTracks = MergeInput(n, xs, NoConfidence(n), yBy, "none")
            /\ mergeOptions = {[DefaultMergeOptions EXCEPT !.strategy = "majority"]}
       \/ \E xs \in [1..n -> OptOf(WeightedValues)], ws \in OptOf(WeightMaps(n)),
             yBy \in {"none", "first"} :
            /\ mergeTracks = MergeInput(n, xs, NoConfidence(n), yBy, "none")
            /\ mergeOptions = {[DefaultMergeOptions EXCEPT !.strategy = "weighted",
                                                           !.weights = ws]}
       \/ \E own \in [1..n -> BOOLEAN], yBy \in Definers, tracksBy \in {"none", "all"},
             strategy \in {"first", "last", "custom", "none"},
             resolver \in {{}, {"count"}} :
            /\ mergeTracks = MergeInput(n, Own(n, own), NoConfidence(n), yBy, tracksBy)
            /\ mergeOptions = IF strategy = "none" THEN {}
                              ELSE {[DefaultMergeOptions EXCEPT
                                       !.strategy = strategy,
                                       !.customResolver = resolver]}

SpecMerge == InitMerge /\ [][MergeTrackDataCall]_vars

\* One call of repeatUntil(conditionStep, stepsToRepeat, options) and one call
\* of execute(state) of the step it returns.  The condition step stores its
\* evaluation under `quality`; the input state holds no evaluations, or the
\* ones of an earlier run of the condition step and of another evaluate step
\* that ran after it.
InitRepeat ==
  /\ InitCommon
  /\ InitNoPipeline
  /\ InitNoTrack
  /\ InitNoParallel
  /\ mergeTracks = <<>>
  /\ mergeOptions = {}
  /\ mergepc = "idle"
  /\ mergeResult = NoMergeResult
  /\ mode = "repeat"
  /\ options = NoTrackOptions
  /\ steps = <<>>
  /\ rpc = "idle"
  /\ callArg = NoState
  /\ repOptions \in
       [maxIterations : {{n} : n \in 0..MaxIterationsBound},
        throwOnMaxIterations : {{}, {TRUE}},
        continueOnError : {{}, {TRUE}},
        retryMaxRetries : {{}, {0}, {2}},
        evaluations : {<<>>,
                       <<EvaluationResult(ConditionName, FALSE),
                         EvaluationResult(OtherName, TRUE)>>,
                       <<EvaluationResult(ConditionName, TRUE),
                         EvaluationResult(OtherName, FALSE)>>}]
  /\ reppc = "new"
  /\ loop = NewLoop
  /\ repTrace = <<>>

NextRepeat ==
  \/ RepeatUntilCall
  \/ RepeatExecuteCall
  \/ ConditionSettle
  \/ RepeatedStepSettle
  \/ RepeatRetryDelayElapsed

SpecRepeat == InitRepeat /\ [][NextRepeat]_vars

\* The same run when every call of a step settles and the delay of
\* executeWithRetry elapses: the event loop runs each continuation that is
\* ready.
SpecRepeatLive == SpecRepeat /\ WF_vars(NextRepeat)

(* ------------------------------- claims -------------------------------- *)
EventsOf(kinds) == SelectSeq(trace, LAMBDA ev : ev.ev \in kinds)
FnEvents == EventsOf({"call", "ok", "fail", "onRetry"})

\* the run goes through executeWithRetry
UsesRetryExecutor ==
  \/ mode = "direct"
  \/ mode \in {"createStep", "wrapStep"} /\ StepUsesRetry

AllCallsFailRetryably ==
  \A i \in 1..Len(FnEvents) :
    /\ FnEvents[i].ev # "ok"
    /\ FnEvents[i].ev = "fail" => isRetryable(FnEvents[i].err)

OnRetryDelays == [i \in 1..Len(EventsOf({"onRetry"})) |-> EventsOf({"onRetry"})[i].delay]

\* C1: with maxRetries = N >= 1 and an fn whose every call fails with an error
\* the predicate accepts, the events are call 1, fail 1, onRetry 1, call 2,
\* fail 2, onRetry 2, ... in this order, the k-th onRetry carries attempt k,
\* the error of the k-th failure and delay retryDelay * backoffFactor^(k-1);
\* the run ends after exactly N+1 calls and N onRetry, rethrowing the last
\* error.
C1_RetryCountOrderAndDelays ==
  (UsesRetryExecutor /\ maxRetries >= 1 /\ AllCallsFailRetryably) =>
    LET t == FnEvents
        N == maxRetries
    IN /\ \A i \in 1..Len(t) :
            LET k == (i + 2) \div 3
            IN CASE i % 3 = 1 -> t[i].ev = "call" /\ t[i].n = k
                 [] i % 3 = 2 -> t[i].ev = "fail" /\ t[i].n = k
                 [] OTHER -> /\ t[i].ev = "onRetry"
                             /\ t[i].n = k
                             /\ t[i].err = t[i - 1].err
                             /\ t[i].delay = initialDelay * Pow(backoffFactor, k - 1)
       /\ calls <= N + 1
       /\ Len(EventsOf({"onRetry"})) <= N
       /\ rpc = "done" =>
            /\ calls = N + 1
            /\ Len(EventsOf({"onRetry"})) = N
            /\ callResult = Rejected(Last(t).err)
       /\ (rpc = "done" /\ N = 3 /\ initialDelay = 100 /\ backoffFactor = 2) =>
            OnRetryDelays = <<100, 200, 400>>

\* C1 witness: maxRetries 3, retryDelay 100, backoffFactor 2, four failed
\* calls, delays 100, 200, 400, rejected.
C1_Witness ==
  /\ mode = "direct" /\ rpc = "done" /\ AllCallsFailRetryably
  /\ maxRetries = 3 /\ calls = 4
  /\ OnRetryDelays = <<100, 200, 400>>
  /\ callResult.status = "rejected"

\* C2: a failure of fn whose error the predicate rejects, or a failure of the
\* first call while maxRetries <= 0, ends executeWithRetry at once: it is the
\* last event (no further call, no further onRetry) and executeWithRetry has
\* rejected with that same error.
C2_NonRetryableRethrownAtOnce ==
  UsesRetryExecutor =>
    \A i \in 1..Len(FnEvents) :
      LET e == FnEvents[i]
      IN (e.ev = "fail" /\ (~isRetryable(e.err) \/ (e.n = 1 /\ maxRetries <= 0))) =>
           /\ i = Len(FnEvents)
           /\ rpc = "done"
           /\ callResult = Rejected(e.err)

\* C2 witness: a retry (not the first call) failed with a rejected error.
C2_Witness ==
  /\ mode = "direct" /\ rpc = "done" /\ calls = 2 /\ maxRetries >= 2
  /\ Last(FnEvents).ev = "fail" /\ ~isRetryable(Last(FnEvents).err)
  /\ callResult = Rejected(Last(FnEvents).err)

\* C2 witness of the other case is covered by the same formula; the state
\* where the first call failed with maxRetries <= 0 and an accepted error:
C2_WitnessNoRetriesAllowed ==
  /\ mode = "direct" /\ rpc = "done" /\ calls = 1 /\ maxRetries <= 0
  /\ Last(FnEvents).ev = "fail" /\ isRetryable(Last(FnEvents).err)

\* C3: for a createStep step, each throw of the executor reaches the caller
\* of executeFunc as: a BaseResearchError (code step_execution_error, step =
\* name, same message, details holding the original error and its stack) when
\* the thrown Error is not a research error; the identical error when it is a
\* research error; and a rejected execute rejects with the error of the last
\* throw.
C3_ErrorNormalization ==
  mode = "createStep" =>
    /\ \A i \in 1..Len(FnEvents) :
         LET e == FnEvents[i]
         IN e.ev = "fail" =>
              /\ (InstanceOfError(e.raw) /\ ~isResearchError(e.raw)) =>
                   /\ e.err.cls = "BaseResearchError"
                   /\ e.err.code = "step_execution_error"
                   /\ e.err.step = StepName(1)
                   /\ e.err.msg = e.raw.msg
                   /\ e.err.details = [originalError |-> <<e.raw>>, stack |-> e.raw.stack]
              /\ isResearchError(e.raw) => e.err = e.raw
    /\ (rpc = "done" /\ callResult.status = "rejected") =>
         callResult.error = Last(FnEvents).err

\* C4: a createStep step retries only when creationOptions.retryable is true.
\* Not retryable: the executor runs once per execute.  Retryable with
\* maxRetries M: at most M + 1 runs; a failure with a research error whose
\* retry is true is followed by another run unless it was run M + 1; a success
\* ends the execute, which resolves with the state that run returned.
C4_RetryOnlyWhenRetryable ==
  (mode = "createStep" /\ rpc = "done") =>
    LET t == FnEvents
        M == Nullish(options.maxRetries, 3)
    IN IF options.retryable = {TRUE}
       THEN /\ calls <= M + 1
            /\ \A i \in 1..Len(t) :
                 /\ (t[i].ev = "fail" /\ isResearchError(t[i].raw)
                       /\ t[i].raw.retry = TRUE /\ t[i].n <= M) =>
                      \E j \in (i + 1)..Len(t) : t[j].ev = "call" /\ t[j].n = t[i].n + 1
                 /\ t[i].ev = "ok" => i = Len(t) /\ callResult = Resolved(t[i].val)
       ELSE calls = 1

\* C5: each call of the wrapper's rollback invokes the step's rollback once,
\* with the state the wrapper was given; the wrapper resolves with the state
\* the step's rollback returned and rejects with the very error it threw;
\* nothing is retried.
C5_WrappedRollbackForwards ==
  mode = "wrapStep" =>
    LET w == EventsOf({"wrapperRollback"})
        r == EventsOf({"rollback"})
        done == EventsOf({"rollbackOk", "rollbackFail"})
    IN /\ Len(r) = Len(w)
       /\ \A i \in 1..Len(w) : r[i].arg = w[i].arg
       /\ Len(done) \in {Len(w), Len(w) - 1}
       /\ (rbpc = "idle" /\ Len(done) > 0) =>
            IF Last(done).ev = "rollbackOk"
            THEN rbResult = Resolved(Last(done).val)
            ELSE rbResult = Rejected(Last(done).raw)

\* C5 witness: a retryable wrapped step whose rollback threw a plain Error on
\* its second call.
C5_Witness ==
  /\ mode = "wrapStep" /\ WrappedStepRetryable /\ rbpc = "idle"
  /\ Len(EventsOf({"rollback"})) = 2
  /\ Last(trace).ev = "rollbackFail" /\ Last(trace).raw = PlainError
  /\ rbResult = Rejected(PlainError)

(* --------------------------- pipeline claims --------------------------- *)
\* the names of the steps whose execute was invoked, in order
InvokedSteps == [i \in 1..Len(EventsOf({"call"})) |-> EventsOf({"call"})[i].step]
AllStepNames == [i \in 1..Len(steps) |-> StepName(i)]
IsPrefix(a, b) == Len(a) <= Len(b) /\ a = SubSeq(b, 1, Len(a))

\* executeSteps has run to its end
ExecuteStepsEnded == spc \in {"returned", "rejected"}
\* executePipeline returned what executeSteps produced (the timer did not win)
ReturnedFromSteps == ppc = "returned" /\ raceWinner # "timeout"
ReturnedErrors == heap[pipelineState.errors]

\* x is the error raw, or the research error made of it
Represents(x, raw) == x = raw \/ x.details.originalError = <<raw>>
\* position of the first entry of errs at or after k that stands for raw, or 0
Holds(errs, raw) == \E k \in 1..Len(errs) : Represents(errs[k], raw)

NoCallAfterFailure ==
  \A i \in 1..Len(trace) : \A j \in (i + 1)..Len(trace) :
    trace[i].ev = "fail" => trace[j].ev # "call"

\* C6: with errorHandling 'stop' and continueOnError false, no execute is
\* invoked after a step failed, and the state executePipeline returns from the
\* step sequence holds the initial errors followed by the failing step's error.
C6_StopHaltsAndKeepsErrors ==
  (mode = "pipeline" /\ StopsOnFailure) =>
    /\ NoCallAfterFailure
    /\ \A i \in 1..Len(trace) :
         (trace[i].ev = "fail" /\ ReturnedFromSteps) =>
           /\ IsPrefix(InitialErrors, ReturnedErrors)
           /\ Len(ReturnedErrors) = Len(InitialErrors) + 1
           /\ Represents(Last(ReturnedErrors), trace[i].raw)

\* C7: with errorHandling 'rollback', once executeSteps has ended every failed
\* step that has a rollback had it invoked exactly once, after the failure,
\* with the state its execute was given.
C7_RollbackOnceWithPreFailureState ==
  (mode = "pipeline" /\ fullConfig.errorHandling = "rollback" /\ ExecuteStepsEnded) =>
    \A i \in 1..Len(trace) :
      (trace[i].ev = "fail" /\ steps[trace[i].n].hasRollback) =>
        /\ Cardinality({j \in 1..Len(trace) :
             trace[j].ev = "rollback" /\ trace[j].step = trace[i].step}) = 1
        /\ \E j \in (i + 1)..Len(trace) :
             /\ trace[j].ev = "rollback" /\ trace[j].step = trace[i].step
             /\ trace[j].arg = trace[i].arg

\* C8: with errorHandling 'rollback', continueOnError false halts after any
\* failure (no execute is invoked after it), continueOnError true goes on to
\* the next step after the rollback.
C8_RollbackPolicyHalts ==
  (mode = "pipeline" /\ fullConfig.errorHandling = "rollback") =>
    IF fullConfig.continueOnError
    THEN \A i \in 1..Len(trace) :
           (trace[i].ev \in {"rollbackOk", "rollbackFail"} /\ trace[i].n < Len(steps)
              /\ ExecuteStepsEnded) =>
             \E j \in (i + 1)..Len(trace) :
               trace[j].ev = "call" /\ trace[j].step = StepName(trace[i].n + 1)
    ELSE NoCallAfterFailure

\* C9: with errorHandling 'rollback', when the rollback of a failed step threw
\* and executePipeline returns from the step sequence, the returned errors hold
\* the step's own failure and, after it, the rollback's failure.
C9_RollbackFailureKeptWithOriginal ==
  (mode = "pipeline" /\ fullConfig.errorHandling = "rollback" /\ ReturnedFromSteps) =>
    \A i \in 1..Len(trace) : \A j \in (i + 1)..Len(trace) :
      (trace[i].ev = "fail" /\ trace[j].ev = "rollbackFail"
         /\ trace[j].step = trace[i].step) =>
        \E a \in 1..Len(ReturnedErrors) : \E b \in (a + 1)..Len(ReturnedErrors) :
          /\ Represents(ReturnedErrors[a], trace[i].raw)
          /\ ReturnedErrors[a].step \in {trace[i].step, NoStep}
          /\ ReturnedErrors[b] = CaughtRollbackError(trace[j].raw, trace[j].step)

\* C10: with continueOnError true, or errorHandling 'continue', the executes
\* are invoked in list order without a gap, all of them once executeSteps has
\* ended, and the state returned from the step sequence holds the error of
\* every failed step.
ContinuesOnFailure == fullConfig.continueOnError \/ fullConfig.errorHandling = "continue"

C10_ContinueRunsEveryStep ==
  (mode = "pipeline" /\ ContinuesOnFailure) =>
    /\ IsPrefix(InvokedSteps, AllStepNames)
    /\ ExecuteStepsEnded => InvokedSteps = AllStepNames
    /\ ReturnedFromSteps =>
         \A i \in 1..Len(trace) :
           trace[i].ev = "fail" => Holds(ReturnedErrors, trace[i].raw)

(* ------------------------- timeout and cleanup ------------------------- *)
\* the step in which the timer decides the race of executePipeline
TimerDecidesRace == raceWinner # "timeout" /\ raceWinner' = "timeout"
\* user code (a step's execute or rollback, or a retry delay) is in flight
InFlight == rpc \in {"firstAwait", "retryAwait", "plainAwait", "wait"} \/ rbpc = "await"

C12_TimeoutReturnsPartialState ==
  [][TimerDecidesRace =>
       \A i \in 1..Len(trace) :
         trace[i].ev = "ok" =>
           /\ IsPrefix(trace[i].val.stepHistory, pipelineState'.stepHistory)
           /\ IsPrefix(trace[i].val.data, pipelineState'.data)
           /\ IsPrefix(trace[i].val.results, pipelineState'.results)]_vars

\* C13: once executePipeline has returned, clearTimeout has been called and the
\* timer is no longer pending; its callback has run at most once, and only as
\* the event that decided the race.
C13_TimerClearedOnEveryExit ==
  /\ firings <= 1
  /\ firings = 1 <=> raceWinner = "timeout"
  /\ ppc = "returned" =>
       /\ clearCalls = 1
       /\ timer \in {"cleared", "fired"}
       /\ timer = "fired" <=> raceWinner = "timeout"

C13_Witness ==
  /\ ppc = "returned"
  /\ raceWinner = "steps"
  /\ timer = "cleared"
  /\ spc = "returned"
  /\ \E i \in 1..Len(trace) : trace[i].ev = "fail"

\* C14: after executePipeline has returned, initialState.errors holds what it
\* held before the call.
C14_InitialStateNotMutated ==
  (mode = "pipeline" /\ ppc = "returned") => heap[InitialErrorsRef] = InitialErrors

\* C15: in executePipeline with maxRetries > 0, once executeSteps has ended a
\* failed call of a retryable step with an error whose retry is true was
\* followed by another call of the same step.
C15_PipelineRetriesRetryableStep ==
  (mode = "pipeline" /\ ExecuteStepsEnded) =>
    \A i \in 1..Len(trace) :
      (/\ trace[i].ev = "fail"
       /\ trace[i].raw = NetRetry
       /\ PipelineStepUsesRetry(trace[i].n)
       /\ Cardinality({j \in 1..i : trace[j].ev = "call" /\ trace[j].step = trace[i].step})
            <= fullConfig.maxRetries) =>
        \E j \in (i + 1)..Len(trace) :
          trace[j].ev = "call" /\ trace[j].step = trace[i].step

(* ---------------------------- track claims ----------------------------- *)
TrackEventsOf(kinds) == SelectSeq(trackTrace, LAMBDA ev : ev.ev \in kinds)

\* C16: the first step of a track is called with a data object of its own that
\* is empty when the track is isolated and holds the parent's entries
\* otherwise, and with empty results and errors; the parent's data object
\* holds what it held before the call in every state of the run, whatever the
\* steps write into the object they are given.
C16_TrackDataIsolation ==
  mode = "track" =>
    /\ objs[ParentDataRef] = ParentData(trackOptions.parentHasTracks)
    /\ \A i \in 1..Len(trackTrace) :
         trackTrace[i].parent = ParentData(trackOptions.parentHasTracks)
    /\ trackTrace # <<>> =>
         LET first == trackTrace[1]
         IN /\ first.ev = "call" /\ first.step = 1
            /\ first.arg.data # ParentDataRef
            /\ first.data = IF isolate THEN EmptyData
                            ELSE ParentData(trackOptions.parentHasTracks)
            /\ first.arg.results = <<>>
            /\ first.arg.errors = <<>>

C16_Witness ==
  /\ mode = "track"
  /\ tpc = "resolved"
  /\ ~isolate
  /\ \E i \in 1..Len(trackTrace) : trackTrace[i].ev = "mutate" /\ trackTrace[i].step = 1
  /\ objs[currentState.data].kv["p"] = 1
  /\ objs[ParentDataRef].kv["p"] = 0
  /\ objs[trackResult.value.data].kv["p"] = 1

\* C17: when a step of a track failed and executeTrackStep rejected, the state
\* the caller passed in holds the failed TrackResult under data.tracks[name].
C17_FailedTrackResultReadable ==
  (mode = "track" /\ tpc = "rejected" /\ TrackEventsOf({"fail"}) # <<>>) =>
    LET tracks == objs[ParentState.data].tracks
    IN /\ trackOptions.name \in DOMAIN tracks
       /\ ~tracks[trackOptions.name].completed

(* --------------------------- parallel claims --------------------------- *)
ParEventsOf(kinds) == SelectSeq(parTrace, LAMBDA ev : ev.ev \in kinds)
\* the runner has passed its validation and called the tracks
Dispatched == mode = "parallel" /\ parpc # "start" /\ promises # <<>>
\* track i was made by track(), it is no bare step
IsTrack(i) == ~(parOptions.bareFirst /\ i = 1)
\* the data object of the state the runner resolved with
ReturnedData == objs[parResult.value.data]

\* C18: once the runner has called its tracks, the first events of the run are
\* the calls of all the tracks in array order, before any track has settled,
\* each with the state the runner was given and the data that state held at
\* the call; no track is left uncalled, whatever the others do.
C18_AllTracksDispatchedOnSameState ==
  Dispatched =>
    /\ Len(parTrace) >= parOptions.tracks
    /\ \A i \in 1..parOptions.tracks :
         /\ parTrace[i].ev = "call"
         /\ parTrace[i].track = i
         /\ parTrace[i].arg = ParallelInput
         /\ parTrace[i].data = ParentData(trackOptions.parentHasTracks)
         /\ promises[i].status # "idle"

C18_Witness ==
  /\ Dispatched
  /\ parpc = "racing"
  /\ promises[1].status = "pending"
  /\ \A i \in 2..parOptions.tracks : promises[i].status = "resolved"
  /\ Len(ParEventsOf({"call"})) = NumTracks
  /\ Len(ParEventsOf({"resolve"})) = NumTracks - 1

\* C19: with continueOnError true, when a track made by track() rejected and
\* the runner has settled after all tracks did, the runner resolved and the
\* returned data.tracks holds an entry for every such track, the one of the
\* rejecting track with completed false.
C19_RejectedTrackKeepsItsSlot ==
  (Dispatched /\ parContinueOnError /\ mergeCalls = 1) =>
    /\ parResult.status = "resolved"
    /\ \A k \in 1..Len(parTrace) :
         (parTrace[k].ev = "reject" /\ IsTrack(parTrace[k].track)) =>
           /\ \A i \in 1..parOptions.tracks :
                IsTrack(i) => TrackName(i) \in DOMAIN ReturnedData.tracks
           /\ TrackName(parTrace[k].track) \in DOMAIN ReturnedData.tracks
           /\ ~ReturnedData.tracks[TrackName(parTrace[k].track)].completed

\* C20: with continueOnError false, when a track rejected while the runner
\* awaited the race, the runner rejected with that very error and the merge
\* function was not invoked.
C20_FirstRejectionPropagates ==
  (Dispatched /\ ~parContinueOnError) =>
    \A k \in 1..Len(parTrace) :
      parTrace[k].ev = "reject" =>
        /\ parResult.status = "rejected"
        /\ parResult.error = parTrace[k].err
        /\ mergeCalls = 0

\* the shared timer fires and decides the race of the parallel runner
ParTimerDecidesRace ==
  mode = "parallel" /\ parpc = "racing" /\ parTimer = "armed" /\ parTimer' = "fired"
SeqRange(q) == {q[k] : k \in 1..Len(q)}

\* C21: when the shared timer fires before every track has settled, the
\* timeout error is the error the runner rejects with or the last error of the
\* state it resolves with, the tracks still pending are left as they are, and
\* the outcome is a state that holds every result fragment of every track
\* that had resolved before.
C21_TimeoutKeepsResolvedTracks ==
  [][ParTimerDecidesRace =>
       /\ parResult'.status \in {"resolved", "rejected"}
       /\ parResult'.status = "rejected" => parResult'.error = ParallelTimeoutError
       /\ parResult'.status = "resolved" =>
            Last(parResult'.value.errors) = ParallelTimeoutError
       /\ promises' = promises
       /\ \A i \in 1..Len(promises) :
            promises[i].status = "resolved" =>
              /\ parResult'.status = "resolved"
              /\ SeqRange(promises[i].value.results)
                   \subseteq SeqRange(parResult'.value.results)]_vars

\* the runner resolved after every track had settled and the merge had run
ParallelMerged == Dispatched /\ parpc = "resolved" /\ mergeCalls = 1
\* the fragments track i added to the results it was called with
ProducedBy(i) ==
  SelectSeq(promises[i].value.results,
            LAMBDA f : f \notin SeqRange(ParallelInput.results))
Occurrences(q, x) == Cardinality({k \in 1..Len(q) : q[k] = x})

\* C22: when the runner resolved after all tracks settled, with the default
\* merge function and includeInResults, the returned results are the results
\* of the input state, then the fragments of the tracks in array order, then
\* one fragment of the merge; each result of the input state occurs once.
C22_ResultsInTrackOrder ==
  (ParallelMerged /\ mergeFunction = "defaultMergeFunction" /\ parIncludeInResults) =>
    LET r == parResult.value.results
        parent == ParallelInput.results
        produced == Concat([i \in 1..Len(promises) |-> ProducedBy(i)])
    IN /\ r = parent \o produced
                \o <<Fragment("parallel", "parallel",
                              <<[tracks |-> DOMAIN ReturnedData.tracks]>>)>>
       /\ \A f \in SeqRange(parent) : Occurrences(r, f) = 1

\* track i resolved and no error came with it
CompletedWithoutError(i) ==
  /\ promises[i].status = "resolved"
  /\ promises[i].value.errors = ParallelInput.errors
  /\ IsTrack(i) =>
       /\ TrackName(i) \in DOMAIN objs[promises[i].value.data].tracks
       /\ objs[promises[i].value.data].tracks[TrackName(i)].completed

\* C23: when the runner resolved after all tracks settled, count is the
\* number of tracks it called, completed + failed = count, and successRate is
\* the number of tracks that completed without error over that number.
C23_SuccessRate ==
  ParallelMerged =>
    LET m == parResult.value.parallelTracks
        total == Len(promises)
        ok == Cardinality({i \in 1..total : CompletedWithoutError(i)})
    IN /\ m.count = total
       /\ m.completed + m.failed = m.count
       /\ SameRatio(m.successRate, ok, total)

\* C24: when a run of the parallel runner that armed the shared timer has
\* returned or thrown, clearTimeout has been called exactly once and the timer
\* is no longer armed, whether the tracks all resolved, one rejected, the
\* timer fired, or collecting or merging the track results failed.
C24_ParallelTimerClearedOnce ==
  (mode = "parallel" /\ parTimer # "none" /\ parpc \in {"resolved", "rejected"}) =>
    /\ parClearCalls = 1
    /\ parTimer \in {"cleared", "fired"}

(* ----------------------------- merge claims ---------------------------- *)
MergeDone == mode = "merge" /\ mergepc = "done"
MergeOpts == Nullish(mergeOptions, DefaultMergeOptions)
\* the data keys other than `tracks` that some track defines
DataKeys == UNION {DOMAIN mergeTracks[i].data : i \in 1..Len(mergeTracks)} \ {"tracks"}
\* the tracks that define key, in track order
DefinersOf(key) == SelectSeq(mergeTracks, LAMBDA t : key \in DOMAIN t.data)
Contested(key) == Len(DefinersOf(key)) >= 2
RECURSIVE SumOf(_)
SumOf(q) == IF q = <<>> THEN 0 ELSE SumOf(SubSeq(q, 1, Len(q) - 1)) + q[Len(q)]
\* deep structural equality of two data values
DeepEqual(v, w) ==
  /\ v.type = w.type
  /\ v.num * w.den = w.num * v.den
  /\ Len(v.props) = Len(w.props)
  /\ SeqRange(v.props) = SeqRange(w.props)

\* C25: a call of mergeTrackData that returns yields an object whose keys are
\* the data keys other than `tracks` that some track defines; a key that
\* exactly one track defines holds that track's value and the custom resolver
\* was not called for it; and when no key is defined twice the call returns
\* under every strategy, with or without weights or resolver.
C25_SingleDefinitionPassesThrough ==
  MergeDone =>
    /\ mergeResult.status = "returned" =>
         /\ DOMAIN mergeResult.merged = DataKeys
         /\ "tracks" \notin DOMAIN mergeResult.merged
         /\ \A key \in DataKeys :
              Len(DefinersOf(key)) = 1 =>
                /\ mergeResult.merged[key] = DefinersOf(key)[1].data[key]
                /\ key \notin mergeResult.calledFor
    /\ (\A key \in DataKeys : ~Contested(key)) => mergeResult.status = "returned"

C25_Witness ==
  /\ MergeDone
  /\ MergeOpts.strategy = "custom"
  /\ MergeOpts.customResolver = {}
  /\ Len(mergeTracks) = MaxMergeTracks
  /\ \A i \in 1..Len(mergeTracks) : "tracks" \in DOMAIN mergeTracks[i].data
  /\ DataKeys = {"x", "y"}
  /\ mergeResult.status = "returned"
  /\ mergeResult.merged["x"] = NumberValue(10 * MaxMergeTracks)

\* C26: under mostConfident (no extractor), for a key that several tracks
\* define, all of them with a confidence, the call returns the value of the
\* first track in track order among those whose confidence is the highest.
C26_MostConfidentWins ==
  (/\ MergeDone
   /\ MergeOpts.strategy = "mostConfident"
   /\ MergeOpts.confidenceExtractor = {}
   /\ Contested("x")
   /\ \A i \in 1..Len(DefinersOf("x")) : DefinersOf("x")[i].confidence # {}) =>
    LET from == DefinersOf("x")
        conf(i) == CHOOSE c \in from[i].confidence : TRUE
        best == CHOOSE i \in 1..Len(from) :
                  \A j \in 1..Len(from) :
                    conf(j) <= conf(i) /\ (j < i => conf(j) < conf(i))
    IN /\ mergeResult.status = "returned"
       /\ mergeResult.merged["x"] = from[best].data["x"]

\* C27: under mostConfident (no extractor) the value of a track without a
\* confidence is not returned for a key that a track with a positive
\* confidence defines too.
C27_MissingConfidenceIsZero ==
  (/\ MergeDone
   /\ MergeOpts.strategy = "mostConfident"
   /\ MergeOpts.confidenceExtractor = {}
   /\ Contested("x")) =>
    /\ mergeResult.status = "returned"
    /\ \A t, u \in SeqRange(DefinersOf("x")) :
         (t.confidence = {} /\ \E c \in u.confidence : c > 0) =>
           mergeResult.merged["x"] # t.data["x"]

\* C28: under majority, for a key that several tracks define the call returns
\* the first value in track order among the values that occur most often,
\* occurrences being counted by deep structural equality.
C28_MajorityByDeepEquality ==
  (MergeDone /\ MergeOpts.strategy = "majority" /\ Contested("x")) =>
    LET from == DefinersOf("x")
        value(i) == from[i].data["x"]
        count(i) == Cardinality({j \in 1..Len(from) : DeepEqual(value(j), value(i))})
        best == CHOOSE i \in 1..Len(from) :
                  \A j \in 1..Len(from) :
                    count(j) <= count(i) /\ (j < i => count(j) < count(i))
    IN /\ mergeResult.status = "returned"
       /\ mergeResult.merged["x"] = value(best)

\* C29: under weighted with a map that gives every track defining the key a
\* weight, none negative and their sum positive, the call returns for numeric
\* values sum(value * weight) / sum(weight).
C29_WeightedMean ==
  (/\ MergeDone
   /\ MergeOpts.strategy = "weighted"
   /\ MergeOpts.weights # {}
   /\ Contested("x")) =>
    LET from == DefinersOf("x")
        weights == CHOOSE w \in MergeOpts.weights : TRUE
        given == \A i \in 1..Len(from) : from[i].name \in DOMAIN weights
        total == SumOf([i \in 1..Len(from) |-> weights[from[i].name]])
        sum == SumOf([i \in 1..Len(from) |-> from[i].data["x"].num * weights[from[i].name]])
    IN (given /\ total > 0) =>
         /\ mergeResult.status = "returned"
         /\ mergeResult.merged["x"].type = "number"
         /\ mergeResult.merged["x"].den # 0
         /\ mergeResult.merged["x"].num * total = sum * mergeResult.merged["x"].den

Untagged(e) == InstanceOfError(e) /\ ~isResearchError(e)

\* C40: in a createStep step made with retryable true, a throw of an untagged
\* Error by the executor becomes a BaseResearchError whose retry is false,
\* which the default predicate rejects: that throw is the last event, execute
\* has rejected with the normalised error, and when it was the first run's
\* throw the executor ran exactly once.
C40_UntaggedErrorNotRetried ==
  (mode = "createStep" /\ StepUsesRetry) =>
    \A i \in 1..Len(FnEvents) :
      LET e == FnEvents[i]
      IN (e.ev = "fail" /\ Untagged(e.raw)) =>
           /\ e.err.cls = "BaseResearchError"
           /\ e.err.retry = FALSE
           /\ ~isRetryable(e.err)
           /\ i = Len(FnEvents)
           /\ rpc = "done"
           /\ callResult = Rejected(e.err)
           /\ e.n = 1 => calls = 1

\* C40 witness: retryable, maxRetries > 0, the first run threw a plain Error
\* and the execute rejected after this one run.
C40_Witness ==
  /\ mode = "createStep" /\ StepUsesRetry /\ maxRetries >= 1
  /\ rpc = "done" /\ calls = 1
  /\ Last(FnEvents).ev = "fail" /\ Last(FnEvents).raw = PlainError
  /\ callResult.status = "rejected" /\ callResult.error.retry = FALSE

(* ------------------------- step history claims ------------------------- *)
\* the event of the outcome of the latest call of a step's execute
LatestOutcome == Last(EventsOf({"ok", "fail"}))

\* C33: when executeStepWithErrorHandling has settled for a step and the loop
\* of executeSteps takes its result, the stepHistory of the loop's state is the
\* history before that step plus exactly one record, which names the step and
\* whose success flag is true exactly when the step's execute resolved.
C33_HistoryGrowsByOneRecord ==
  [][(mode = "pipeline" /\ spc = "step" /\ rpc = "done" /\ spc' # "step") =>
       LET before == stepsState.stepHistory
           after == stepsState'.stepHistory
       IN /\ Len(after) = Len(before) + 1
          /\ SubSeq(after, 1, Len(before)) = before
          /\ Last(after).stepName = StepName(stepIndex)
          /\ Last(after).success = (LatestOutcome.ev = "ok")]_vars

\* C39: once executePipeline has returned because its timer expired, no
\* execute of a step is called any more.
C39_NoStepStartsAfterTimeout ==
  [][(mode = "pipeline" /\ ppc = "returned" /\ raceWinner = "timeout") =>
       calls' = calls]_vars

(* --------------------- data of the parallel tracks --------------------- *)
\* the tracks whose returned state holds the value the track wrote under the
\* plain key that every track writes
Writers ==
  {i \in 1..Len(promises) :
     /\ promises[i].status = "resolved"
     /\ objs[promises[i].value.data].kv[TrackStepKey(1)] = 10 * i}

\* C38: when the runner resolved after all tracks settled, in whatever order
\* they did, a plain key that several tracks wrote holds in the returned data
\* the value of the last of these tracks in the order of the tracks array.
C38_LastWriterInArrayOrderWins ==
  (ParallelMerged /\ Cardinality(Writers) >= 2) =>
    \E last \in Writers :
      /\ \A i \in Writers : i <= last
      /\ ReturnedData.kv[TrackStepKey(1)] = 10 * last

(* -------------------------- repeatUntil claims ------------------------- *)
RepeatSettled == mode = "repeat" /\ reppc \in {"resolved", "rejected"}
\* the calls of the condition step (index 0) or of the j-th repeated step
CallsOf(j) == SelectSeq(repTrace, LAMBDA e : e.ev = "call" /\ e.index = j)
\* how the calls of the steps settled
Settlings(kinds) == SelectSeq(repTrace, LAMBDA e : e.ev \in kinds)
\* data.iterations[conditionStep.name] of the state execute resolved with
IterationInfo == callResult.value.iterations[1]

\* C31: when no step threw and no evaluation of the condition step passed,
\* the settled execute has run exactly maxIterations iterations, each calling
\* the condition step once and every repeated step once; it has rejected with
\* a MaxIterationsError when throwOnMaxIterations is true and resolved with
\* completed = maxIterations and conditionMet = false otherwise.
C31_RunsExactlyMaxIterations ==
  (RepeatSettled /\ Settlings({"throw", "pass"}) = <<>>) =>
    /\ \A j \in 0..NumRepeatedSteps :
         /\ Len(CallsOf(j)) = maxIterations
         /\ \A k \in 1..Len(CallsOf(j)) : CallsOf(j)[k].iteration = k
    /\ IF throwOnMaxIterations
       THEN /\ callResult.status = "rejected"
            /\ callResult.error.cls = "MaxIterationsError"
       ELSE /\ callResult.status = "resolved"
            /\ IterationInfo.completed = maxIterations
            /\ IterationInfo.conditionMet = FALSE

\* C36: an iteration ends the loop as successful exactly when the evaluation
\* its call of the condition step stored has passed: a passed evaluation is
\* the last event, execute has resolved and reports conditionMet; after one
\* that has not passed the first repeated step is called in the same
\* iteration.
C36_OwnEvaluationDecides ==
  mode = "repeat" =>
    \A i \in 1..Len(repTrace) :
      /\ repTrace[i].ev = "pass" =>
           /\ i = Len(repTrace)
           /\ reppc = "resolved"
           /\ IterationInfo.conditionMet
           /\ IterationInfo.completed = repTrace[i].iteration
      /\ repTrace[i].ev = "fail" =>
           /\ i < Len(repTrace)
           /\ repTrace[i + 1].ev = "call"
           /\ repTrace[i + 1].index = 1
           /\ repTrace[i + 1].iteration = repTrace[i].iteration

\* C35: a repeated step is called in an iteration only after the condition
\* step has settled in that iteration; and when no step threw, the first
\* passed evaluation of the condition step, in iteration k, is the last event:
\* execute has resolved with conditionMet = true and completed = k, and every
\* repeated step was called exactly k - 1 times.
C35_ConditionFirstAndExitOnPass ==
  mode = "repeat" =>
    /\ \A i \in 1..Len(repTrace) :
         (repTrace[i].ev = "call" /\ repTrace[i].index >= 1) =>
           \E c \in 1..(i - 1) :
             /\ repTrace[c].ev \in {"pass", "fail"}
             /\ repTrace[c].run = repTrace[i].run
             /\ repTrace[c].iteration = repTrace[i].iteration
    /\ \A i \in 1..Len(repTrace) :
         (/\ repTrace[i].ev = "pass"
          /\ \A c \in 1..(i - 1) : repTrace[c].ev \notin {"pass", "throw"}) =>
           LET k == repTrace[i].iteration
           IN /\ i = Len(repTrace)
              /\ reppc = "resolved"
              /\ IterationInfo.conditionMet
              /\ IterationInfo.completed = k
              /\ \A j \in 1..NumRepeatedSteps : Len(CallsOf(j)) = k - 1

\* C34: the repeated steps of an iteration form a chain: the first one is
\* called with the state the condition step returned, each following one with
\* the state the step before it returned; and the state execute resolves with
\* after a round in which every repeated step returned carries the mark of
\* each of them.
C34_RepeatedStepsChain ==
  mode = "repeat" =>
    /\ \A i \in 2..Len(repTrace) :
         (/\ repTrace[i].ev = "call"
          /\ repTrace[i].index >= 1
          /\ repTrace[i - 1].ev \in {"fail", "ok"}) =>
           repTrace[i].arg = repTrace[i - 1].val
    /\ (reppc = "resolved" /\ Settlings({"throw"}) = <<>> /\ CallsOf(1) # <<>>) =>
         \A j \in 1..NumRepeatedSteps :
           RepeatedStepName(j) \in SeqRange(callResult.value.marks)

\* C32: with continueOnError true, the state execute resolves with holds in
\* errors the errors the input state held, followed by one entry for every
\* error the condition step or a repeated step threw, in the order of the
\* throws (the error itself, or an Error with its message for a thrown value
\* that is no Error); errorCount is the number of these throws.
C32_EveryLoopErrorRecorded ==
  (mode = "repeat" /\ reppc = "resolved" /\ repeatContinueOnError) =>
    LET thrown == Settlings({"throw"})
        errors == callResult.value.errors
        prior == Len(RepeatInput.errors)
    IN /\ Len(errors) = prior + Len(thrown)
       /\ SubSeq(errors, 1, prior) = RepeatInput.errors
       /\ \A i \in 1..Len(thrown) :
            /\ errors[prior + i].msg = thrown[i].err.msg
            /\ InstanceOfError(errors[prior + i])
            /\ InstanceOfError(thrown[i].err) => errors[prior + i] = thrown[i].err
       /\ IterationInfo.errorCount = Len(thrown)

\* C32 witness: the condition step threw a value that is no Error, then a
\* repeated step threw, then the condition step threw again, and execute
\* resolved with the three entries after the earlier error.
C32_Witness ==
  /\ mode = "repeat" /\ reppc = "resolved" /\ repeatContinueOnError
  /\ Len(Settlings({"throw"})) = 3
  /\ Settlings({"throw"})[1].err = NonError
  /\ Settlings({"throw"})[2].err = PlainError
  /\ Settlings({"throw"})[3].err = EvaluateFailure
  /\ Len(callResult.value.errors) = 4
  /\ IterationInfo.errorCount = 3

\* C37: one call of execute of a RepeatUntil step settles, and it calls the
\* condition step at most maxIterations times in all, whatever continueOnError
\* and throwOnMaxIterations are and whichever steps fail.
C37_TerminatesWithinMaxIterations ==
  /\ <>(reppc \in {"invalid", "resolved", "rejected"})
  /\ [](mode = "repeat" => Len(CallsOf(0)) <= maxIterations)


============================================================================
